---- MODULE Spec2Model ----
(***************************************************************************)
(* Barcode recognition engine of confluence_uploader:                      *)
(*   - detect_barcodes      (barcode_parser.py): the transform cascade     *)
(*   - process_image_to_rows (processor.py): reconciliation and selection  *)
(*   - _prefer_topmost_stacked (processor.py): stacked-duplicate pass      *)
(*   - normalize_candidates (caper_normalizer.py): normalization grammar   *)
(*   - detect_barcodes_unified (unified_barcode_detector.py): the entry    *)
(*     point that wraps detect_barcodes                                    *)
(*   - main (cli.py): the hand-over of the detections of one image to      *)
(*     process_image_to_rows                                               *)
(*                                                                         *)
(* Strings of the program are sequences of one-character strings, so that  *)
(* slicing, padding and digit projection are computed and not assumed.     *)
(***************************************************************************)
EXTENDS Integers, Sequences, FiniteSets, TLC

VARIABLES
    \* ---- detect_barcodes (one run of the cascade) ----
    aggressive,     \* the effort flag
    imgSize,        \* <<W, H>> of the source image
    max_side,       \* 0 for None, else the requested longest side
    haveZbar,       \* cv2 and pyzbar importable
    pc,             \* position of the run in detect_barcodes
    idx,            \* index inside the loop of the current tier
    vertical,       \* the quick scan saw a vertical symbol
    quickBoxes,     \* <<width, height>> of each positioned symbol of the quick scan
    calls,          \* decoder invocations made so far, in order
    result,         \* the list detect_barcodes returned
    outcome,        \* "running" | "returned" | "raised"
    allEmpty,       \* every decoder invocation so far answered the empty list
    errors,         \* the kinds of exception met so far: "DecodeError", "TransformError"
    stub,           \* the stubbed decoder the runs are made with, or NoStub
    run,            \* 1 for the first call of detect_barcodes on the image, 2 for the second
    first,          \* what the first call did, once the second has begun
    \* ---- process_image_to_rows ----
    barcodes,       \* detections passed in
    opts,           \* ProcessOptions
    upc_ocr,        \* what the UPC/EAN OCR collaborators answer for the image
    nameAnswer,     \* what the naming collaborators (OCR, lookups) answer when asked
    kept,           \* the detections that produced rows, row by row
    dedupeCall,     \* the call of _dedupe_and_filter: the list passed in, the list returned
    rows,           \* the RowDraft list returned
    rstate,         \* "input" | "done"
    \* ---- _prefer_topmost_stacked ----
    stackIn, stackOut, sstate,
    \* ---- normalize_candidates ----
    normValue,      \* the decoded text handed to normalize_candidates
    normType,       \* its symbology
    normOut,        \* the candidate list returned
    nstate,         \* "input" | "done" | "again"
    normPrev,       \* once a candidate was normalized again: the text of the first call
    \* ---- detect_barcodes_unified ----
    try_fallback,   \* the parameter of that name
    hybridAnswer,   \* what the hybrid pyzbar detector finds on the image
    hybridCalls,    \* how often the hybrid detector was invoked
    unified,        \* the list detect_barcodes_unified returned
    ustate          \* "pending" | "returned" | "raised"

cvars ==
    <<aggressive, imgSize, max_side, haveZbar, pc, idx, vertical, quickBoxes, calls, result, outcome,
      allEmpty, errors, stub, run, first>>
rvars == <<barcodes, opts, upc_ocr, nameAnswer, kept, dedupeCall, rows, rstate>>
svars == <<stackIn, stackOut, sstate>>
nvars == <<normValue, normType, normOut, nstate, normPrev>>
uvars == <<try_fallback, hybridAnswer, hybridCalls, unified, ustate>>
vars == <<cvars, rvars, svars, nvars, uvars>>

None == "None"
\* None where a str is expected: no string of the program holds this character
NoStr == <<"None">>

(***************************************************************************)
(* Characters and digit strings                                            *)
(***************************************************************************)
Digits == {"0", "1", "2", "3", "4", "5", "6", "7", "8", "9"}

DigitVal(c) ==
    CASE c = "0" -> 0 [] c = "1" -> 1 [] c = "2" -> 2 [] c = "3" -> 3
      [] c = "4" -> 4 [] c = "5" -> 5 [] c = "6" -> 6 [] c = "7" -> 7
      [] c = "8" -> 8 [] c = "9" -> 9

DigitChar(n) ==
    CASE n = 0 -> "0" [] n = 1 -> "1" [] n = 2 -> "2" [] n = 3 -> "3"
      [] n = 4 -> "4" [] n = 5 -> "5" [] n = 6 -> "6" [] n = 7 -> "7"
      [] n = 8 -> "8" [] n = 9 -> "9"

\* str.isdigit(): non-empty and every character a digit
IsDigitStr(s) == Len(s) > 0 /\ \A i \in 1..Len(s) : s[i] \in Digits

\* s[a:b] of Python for 0 <= a, b (0-based, end exclusive, clipped to the string)
Slice(s, a, b) ==
    LET e == IF b > Len(s) THEN Len(s) ELSE b
    IN  IF a >= e THEN <<>> ELSE SubSeq(s, a + 1, e)

StartsWith(s, p) == Len(s) >= Len(p) /\ SubSeq(s, 1, Len(p)) = p

Zeros(n) == [i \in 1..n |-> "0"]

InSeq(x, s) == \E i \in 1..Len(s) : s[i] = x

\* sum of the digit values of s at the 0-based positions lo, lo+2, ... below hi
RECURSIVE SumStep2(_, _, _)
SumStep2(s, lo, hi) ==
    IF lo >= hi THEN 0 ELSE DigitVal(s[lo + 1]) + SumStep2(s, lo + 2, hi)

(***************************************************************************)
(* caper_normalizer.py                                                     *)
(***************************************************************************)
_digits_only(s) == SelectSeq(s, LAMBDA ch : ch \in Digits)

_left_pad_to_13_short(s) ==
    LET d == _digits_only(s)
    IN  IF Len(d) >= 12 THEN Slice(d, 0, 12) ELSE Zeros(12 - Len(d)) \o d

_left_pad_to_13(s) ==
    LET d == _digits_only(s)
    IN  IF Len(d) >= 13 THEN Slice(d, 0, 13) ELSE Zeros(13 - Len(d)) \o d

_remove_check_digit_and_pad(s) ==
    LET d == _digits_only(s)
    IN  IF d = <<>> THEN d ELSE _left_pad_to_13(Slice(d, 0, Len(d) - 1))

_to_padded_raw_barcode(s) == _left_pad_to_13(_digits_only(s))

RECURSIVE WeightedSum(_, _)
\* sum over i of int(s[i]) * (3 if i even else 1), i 0-based, over s[0..n-1]
WeightedSum(s, n) ==
    IF n = 0 THEN 0
    ELSE WeightedSum(s, n - 1) + DigitVal(s[n]) * (IF (n - 1) % 2 = 0 THEN 3 ELSE 1)

\* None for an empty or non-numeric string
_calculate_check_digit(s) ==
    IF ~IsDigitStr(s) THEN None
    ELSE DigitChar((10 - (WeightedSum(s, Len(s)) % 10)) % 10)

_is_valid_check_digit(barcode) ==
    IF Len(barcode) < 2 THEN FALSE
    ELSE LET check == _calculate_check_digit(Slice(barcode, 0, Len(barcode) - 1))
         IN  check # None /\ check = barcode[Len(barcode)]

\* the expansion with the rule of the last digits 5..9 applied to 3 and 4 as well
_expand_upce_to_upca_two_rules(upce) ==
    LET d0 == _digits_only(upce)
        digits == IF Len(d0) = 6 THEN <<"0">> \o d0 \o <<"0">>
                  ELSE IF Len(d0) = 7 THEN d0 \o <<"0">>
                  ELSE d0
    IN  IF Len(d0) \notin {6, 7, 8} THEN NoStr
        ELSE IF digits[1] \notin {"0", "1"} THEN NoStr
        ELSE LET number_system == <<digits[1]>>
                 last_digit == digits[7]
                 manufacturer == Slice(digits, 1, 6)
                 check == <<digits[8]>>
             IN  IF last_digit \in {"0", "1", "2"}
                 THEN number_system \o Slice(manufacturer, 0, 2) \o <<last_digit>>
                      \o Zeros(4) \o Slice(manufacturer, 2, 5) \o check
                 ELSE number_system \o manufacturer \o Zeros(4) \o <<last_digit>> \o check

\* NoStr (None) when the value is no UPC-E; else the 12-digit UPC-A
_expand_upce_to_upca(upce) ==
    LET d0 == _digits_only(upce)
        digits == IF Len(d0) = 6 THEN <<"0">> \o d0 \o <<"0">>
                  ELSE IF Len(d0) = 7 THEN d0 \o <<"0">>
                  ELSE d0
    IN  IF Len(d0) \notin {6, 7, 8} THEN NoStr
        ELSE IF digits[1] \notin {"0", "1"} THEN NoStr
        ELSE LET number_system == <<digits[1]>>
                 last_digit == digits[7]
                 manufacturer == Slice(digits, 1, 6)
                 check == <<digits[8]>>
             IN  IF last_digit \in {"0", "1", "2"}
                 THEN number_system \o Slice(manufacturer, 0, 2) \o <<last_digit>>
                      \o Zeros(4) \o Slice(manufacturer, 2, 5) \o check
                 ELSE IF last_digit = "3"
                 THEN number_system \o Slice(manufacturer, 0, 3) \o Zeros(5)
                      \o Slice(manufacturer, 3, 5) \o check
                 ELSE IF last_digit = "4"
                 THEN number_system \o Slice(manufacturer, 0, 4) \o Zeros(5)
                      \o <<manufacturer[5]>> \o check
                 ELSE number_system \o manufacturer \o Zeros(4) \o <<last_digit>> \o check

\* "if v and v not in candidates: candidates.append(v)"
AddTruthy(candidates, v) ==
    IF v # <<>> /\ ~InSeq(v, candidates) THEN Append(candidates, v) ELSE candidates

\* "if v not in candidates: candidates.append(v)"
AddNew(candidates, v) ==
    IF ~InSeq(v, candidates) THEN Append(candidates, v) ELSE candidates

\* the price-embedded branch with the item code read one digit further right,
\* and the no-price variant cut after seven digits
PriceEmbeddedCandidatesShifted(raw) ==
    LET lookup == <<"0", "0", "2">> \o Slice(raw, 2, 7) \o Zeros(5)
        no_price == Slice(raw, 0, 7) \o Zeros(6)
    IN  AddNew(AddNew(<<raw>>, lookup), no_price)

\* the branch "EAN-13 price-embedded", which returns early
PriceEmbeddedCandidates(raw) ==
    LET lookup == <<"0", "0", "2">> \o Slice(raw, 1, 6) \o Zeros(5)
        no_price == Slice(raw, 0, 8) \o Zeros(5)
    IN  AddNew(AddNew(<<raw>>, lookup), no_price)

UpceStep(c, raw, barcode_type) ==
    IF barcode_type \in {"UPC-E", "UPCE"} /\ 6 <= Len(raw) /\ Len(raw) <= 8
    THEN LET upca == _expand_upce_to_upca(raw)
         IN  IF upca # NoStr THEN AddTruthy(c, _remove_check_digit_and_pad(upca)) ELSE c
    ELSE c

Ean8Step(c, raw, barcode_type) ==
    IF barcode_type = "EAN-8" /\ Len(raw) = 8
    THEN AddTruthy(c, _remove_check_digit_and_pad(raw))
    ELSE c

DataBarStep(c, value, raw, barcode_type) ==
    IF barcode_type \in {"GS1 DataBar", "GS1 DataBar Expanded", "DataBar"}
    THEN LET c1 == IF (StartsWith(value, <<"0", "1">>) \/ StartsWith(value, <<"(", "0", "1", ")">>))
                      /\ StartsWith(raw, <<"0", "1">>) /\ Len(raw) >= 17
                   THEN AddTruthy(c, Slice(raw, 2, 15))
                   ELSE c
         IN  IF Len(raw) = 16 /\ StartsWith(raw, <<"0", "1">>)
             THEN LET gtin14 == Slice(raw, 2, 16)
                  IN  AddTruthy(AddTruthy(c1, gtin14), _remove_check_digit_and_pad(gtin14))
             ELSE IF Len(raw) = 14
             THEN AddTruthy(AddNew(c1, raw), _remove_check_digit_and_pad(raw))
             ELSE c1
    ELSE c

\* the Code 128 rule adding the padded raw value before the stripped one
Code128StepPadFirst(c, raw, barcode_type) ==
    IF barcode_type = "Code 128"
    THEN IF 9 <= Len(raw) /\ Len(raw) <= 11
         THEN AddTruthy(AddTruthy(c, _to_padded_raw_barcode(raw)), _remove_check_digit_and_pad(raw))
         ELSE IF Len(raw) = 12 /\ ~StartsWith(raw, <<"2">>)
         THEN IF _is_valid_check_digit(raw)
              THEN AddTruthy(c, _remove_check_digit_and_pad(raw))
              ELSE AddTruthy(c, _to_padded_raw_barcode(raw))
         ELSE c
    ELSE c

Code128Step(c, raw, barcode_type) ==
    IF barcode_type = "Code 128"
    THEN IF 9 <= Len(raw) /\ Len(raw) <= 11
         THEN AddTruthy(AddTruthy(c, _remove_check_digit_and_pad(raw)), _to_padded_raw_barcode(raw))
         ELSE IF Len(raw) = 12 /\ ~StartsWith(raw, <<"2">>)
         THEN IF _is_valid_check_digit(raw)
              THEN AddTruthy(c, _remove_check_digit_and_pad(raw))
              ELSE AddTruthy(c, _to_padded_raw_barcode(raw))
         ELSE c
    ELSE c

\* the 002 rule keeping seven digits instead of eight
NoPriceStepSeven(c, raw) ==
    IF Len(raw) = 13 /\ StartsWith(raw, <<"0", "0", "2">>)
    THEN AddNew(c, Slice(raw, 0, 7) \o Zeros(6))
    ELSE c

NoPriceStep(c, raw) ==
    IF Len(raw) = 13 /\ StartsWith(raw, <<"0", "0", "2">>)
    THEN AddNew(c, Slice(raw, 0, 8) \o Zeros(5))
    ELSE c

UpcaStep(c, raw, barcode_type) ==
    IF barcode_type \in {"UPC-A", "UPCA"} /\ Len(raw) = 12
    THEN AddTruthy(c, _remove_check_digit_and_pad(raw))
    ELSE c

\* the EAN-13 rule padding the value without stripping its check digit
Ean13StepUnstripped(c, raw, barcode_type) ==
    IF barcode_type = "EAN-13" /\ Len(raw) = 13 /\ ~StartsWith(raw, <<"2">>)
    THEN AddTruthy(c, _to_padded_raw_barcode(raw))
    ELSE c

Ean13Step(c, raw, barcode_type) ==
    IF barcode_type = "EAN-13" /\ Len(raw) = 13 /\ ~StartsWith(raw, <<"2">>)
    THEN AddTruthy(c, _remove_check_digit_and_pad(raw))
    ELSE c

\* normalize_candidates without the digit projection
normalize_candidates_unprojected(value, barcode_type) ==
    IF value = <<>> THEN <<>> ELSE <<value>>

normalize_candidates(value, barcode_type) ==
    LET raw == _digits_only(value)
    IN  IF raw = <<>> THEN <<>>
        ELSE IF barcode_type = "EAN-13" /\ Len(raw) = 13 /\ raw[1] = "2"
        THEN PriceEmbeddedCandidates(raw)
        ELSE LET c1 == UpceStep(<<raw>>, raw, barcode_type)
                 c2 == Ean8Step(c1, raw, barcode_type)
                 c3 == DataBarStep(c2, value, raw, barcode_type)
                 c4 == Code128Step(c3, raw, barcode_type)
                 c5 == NoPriceStep(c4, raw)
                 c6 == UpcaStep(c5, raw, barcode_type)
             IN  Ean13Step(c6, raw, barcode_type)

(***************************************************************************)
(* processor.py                                                            *)
(*                                                                         *)
(* A DetectedBarcode is a record [barcode_type, barcode_value, quad,       *)
(* detection_method]: barcode_type one of the type names below,            *)
(* barcode_value and detection_method strings (NoStr for None), quad a     *)
(* sequence of points <<x, y>> (empty: position unknown).                  *)
(***************************************************************************)
UpcEanTypes == {"UPC-A", "UPC-E", "EAN-13", "EAN-8"}

\* "DataBar" in barcode_type, over the type names a decoder reports
HasDataBar(barcode_type) == barcode_type \in {"GS1 DataBar", "GS1 DataBar Expanded", "DataBar"}

\* "Code" in barcode_type and "128" in barcode_type
IsCode128(barcode_type) == barcode_type \in {"Code 128"}

Detected(t, v, q, m) ==
    [barcode_type |-> t, barcode_value |-> v, quad |-> q, detection_method |-> m]

RowDraft(t, v, n, nt) ==
    [barcode_type |-> t, barcode_value |-> v, item_name |-> n, notes |-> nt]

\* s contains sub as a substring ("sub in s")
Contains(s, sub) ==
    \E i \in 0..(Len(s) - Len(sub)) : Slice(s, i, i + Len(sub)) = sub

_is_gs1_databar(barcode_type, value) == HasDataBar(barcode_type)

_is_price_embedded(barcode_type, value) ==
    \/ barcode_type = "UPC-A" /\ StartsWith(value, <<"2">>)
    \/ barcode_type = "EAN-13" /\ Len(value) >= 2 /\ value[1] = "2" /\ value[2] \in Digits

_checksum_ean13(s) ==
    IF Len(s) # 13 \/ ~IsDigitStr(s) THEN FALSE
    ELSE LET sum_odd == SumStep2(s, 0, 12)
             sum_even == SumStep2(s, 1, 12)
             check == (10 - ((sum_odd + 3 * sum_even) % 10)) % 10
         IN  check = DigitVal(s[13])

_checksum_ean8(s) ==
    IF Len(s) # 8 \/ ~IsDigitStr(s) THEN FALSE
    ELSE LET sum_odd == SumStep2(s, 0, 7)
             sum_even == SumStep2(s, 1, 7)
             check == (10 - ((3 * sum_odd + sum_even) % 10)) % 10
         IN  check = DigitVal(s[8])

_checksum_upca(s) ==
    IF Len(s) # 12 \/ ~IsDigitStr(s) THEN FALSE
    ELSE LET sum_odd == SumStep2(s, 0, 11)
             sum_even == SumStep2(s, 1, 11)
             check == (10 - (((sum_odd * 3) + sum_even) % 10)) % 10
         IN  check = DigitVal(s[12])

\* a validator that lets every EAN-13 value through
_is_valid_upcean_lax(barcode_type, value) ==
    IF barcode_type = "EAN-8" THEN _checksum_ean8(value)
    ELSE IF barcode_type = "UPC-A" THEN _checksum_upca(value)
    ELSE TRUE

_is_valid_upcean(barcode_type, value) ==
    IF barcode_type = "EAN-13" THEN _checksum_ean13(value)
    ELSE IF barcode_type = "EAN-8" THEN _checksum_ean8(value)
    ELSE IF barcode_type = "UPC-A" THEN _checksum_upca(value)
    ELSE TRUE

SeqMin(f, n) == CHOOSE m \in {f[i] : i \in 1..n} : \A i \in 1..n : m <= f[i]
SeqMax(f, n) == CHOOSE m \in {f[i] : i \in 1..n} : \A i \in 1..n : m >= f[i]

\* None (the string) for an empty quad, else <<min x, min y, max x, max y>>
_bbox_from_quad(b) ==
    IF b.quad = <<>> THEN None
    ELSE LET n == Len(b.quad)
             xs == [i \in 1..n |-> b.quad[i][1]]
             ys == [i \in 1..n |-> b.quad[i][2]]
         IN  <<SeqMin(xs, n), SeqMin(ys, n), SeqMax(xs, n), SeqMax(ys, n)>>

HasBox(b) == b.quad # <<>>

Max2(a, b) == IF a >= b THEN a ELSE b
Min2(a, b) == IF a <= b THEN a ELSE b

\* _overlap_ratio_1d returns inter / float(min_len); the two parts of the ratio
OverlapInter(a1, a2, b1, b2) == Max2(0, Min2(a2, b2) - Max2(a1, b1))
OverlapMinLen(a1, a2, b1, b2) == Max2(1, Min2(Max2(0, a2 - a1), Max2(0, b2 - b1)))

\* a stacking test that looks at the horizontal overlap only
StackedBoxesAnyHeight(bi, bj) ==
    10 * OverlapInter(bi[1], bi[3], bj[1], bj[3]) >= 6 * OverlapMinLen(bi[1], bi[3], bj[1], bj[3])

\* "h_ov >= 0.6 and v_ov <= 0.1" on two boxes, the ratios compared exactly
\* (the quotient of two pixel counts rounds to the double 0.6 or 0.1 only when it
\* equals 3/5 or 1/10)
StackedBoxes(bi, bj) ==
    /\ 10 * OverlapInter(bi[1], bi[3], bj[1], bj[3]) >= 6 * OverlapMinLen(bi[1], bi[3], bj[1], bj[3])
    /\ 10 * OverlapInter(bi[2], bi[4], bj[2], bj[4]) <= OverlapMinLen(bi[2], bi[4], bj[2], bj[4])

\* key of the sort: the top of the box, 10**9 without a quad
SortKey(b) == IF HasBox(b) THEN _bbox_from_quad(b)[2] ELSE 1000000000

\* sorted() is stable: the indices by (key, position)
SortedOrder(bs) ==
    LET n == Len(bs)
        Before(i, j) == \/ SortKey(bs[i]) < SortKey(bs[j])
                        \/ SortKey(bs[i]) = SortKey(bs[j]) /\ i < j
        Rank(i) == 1 + Cardinality({j \in 1..n : Before(j, i)})
    IN  [k \in 1..n |-> CHOOSE i \in 1..n : Rank(i) = k]

RECURSIVE StackInner(_, _, _, _, _)
\* the loop "for j, box_j in order[k+1:]" from position p on, for the entry i
StackInner(bs, order, i, p, dropped) ==
    IF p > Len(order) THEN dropped
    ELSE LET j == order[p]
         IN  IF j \in dropped \/ ~HasBox(bs[j])
             THEN StackInner(bs, order, i, p + 1, dropped)
             ELSE IF StackedBoxes(_bbox_from_quad(bs[i]), _bbox_from_quad(bs[j]))
             THEN IF _bbox_from_quad(bs[i])[2] <= _bbox_from_quad(bs[j])[2]
                  THEN StackInner(bs, order, i, p + 1, dropped \cup {j})
                  ELSE dropped \cup {i}
             ELSE StackInner(bs, order, i, p + 1, dropped)

RECURSIVE StackOuter(_, _, _, _)
\* the loop "for k, (i, box_i) in enumerate(order)" from position k on
StackOuter(bs, order, k, dropped) ==
    IF k > Len(order) THEN dropped
    ELSE LET i == order[k]
         IN  IF ~HasBox(bs[i]) \/ i \in dropped
             THEN StackOuter(bs, order, k + 1, dropped)
             ELSE StackOuter(bs, order, k + 1, StackInner(bs, order, i, k + 1, dropped))

RECURSIVE KeepNot(_, _, _)
\* [b for idx, b in enumerate(barcodes) if idx not in dropped], from position k on
KeepNot(bs, dropped, k) ==
    IF k > Len(bs) THEN <<>>
    ELSE (IF k \in dropped THEN <<>> ELSE <<bs[k]>>) \o KeepNot(bs, dropped, k + 1)

_prefer_topmost_stacked(bs) ==
    KeepNot(bs, StackOuter(bs, SortedOrder(bs), 1, {}), 1)

RECURSIVE DedupeTypeFirstFrom(_, _, _, _)
\* the loop noting the type of a UPC/EAN entry before it tests the checksum
DedupeTypeFirstFrom(bs, k, seen, seen_types) ==
    IF k > Len(bs) THEN <<>>
    ELSE LET b == bs[k]
             key == <<b.barcode_type, b.barcode_value>>
             types == IF b.barcode_type \in UpcEanTypes
                      THEN seen_types \cup {b.barcode_type} ELSE seen_types
         IN  IF key \in seen
             THEN DedupeTypeFirstFrom(bs, k + 1, seen, seen_types)
             ELSE IF b.barcode_type \in UpcEanTypes /\ b.barcode_type \in seen_types
             THEN DedupeTypeFirstFrom(bs, k + 1, seen, seen_types)
             ELSE IF b.barcode_type \in {"EAN-13", "EAN-8", "UPC-A"}
                     /\ ~_is_valid_upcean(b.barcode_type, b.barcode_value)
             THEN DedupeTypeFirstFrom(bs, k + 1, seen, types)
             ELSE <<b>> \o DedupeTypeFirstFrom(bs, k + 1, seen \cup {key}, types)

_dedupe_and_filter_type_first(bs) == DedupeTypeFirstFrom(bs, 1, {}, {})

RECURSIVE DedupeFrom(_, _, _, _)
\* the loop of _dedupe_and_filter from position k on
DedupeFrom(bs, k, seen, seen_types) ==
    IF k > Len(bs) THEN <<>>
    ELSE LET b == bs[k]
             key == <<b.barcode_type, b.barcode_value>>
         IN  IF key \in seen
             THEN DedupeFrom(bs, k + 1, seen, seen_types)
             ELSE IF b.barcode_type \in {"EAN-13", "EAN-8", "UPC-A"}
                     /\ ~_is_valid_upcean(b.barcode_type, b.barcode_value)
             THEN DedupeFrom(bs, k + 1, seen, seen_types)
             ELSE IF b.barcode_type \in UpcEanTypes /\ b.barcode_type \in seen_types
             THEN DedupeFrom(bs, k + 1, seen, seen_types)
             ELSE <<b>> \o DedupeFrom(bs, k + 1, seen \cup {key},
                                      IF b.barcode_type \in UpcEanTypes
                                      THEN seen_types \cup {b.barcode_type}
                                      ELSE seen_types)

_dedupe_and_filter(bs) == DedupeFrom(bs, 1, {}, {})

(***************************************************************************)
(* gs1_parser.py                                                           *)
(***************************************************************************)
\* AI_PATTERN "\((\d{2,4})\)" at the 0-based position i: the number of AI digits, 0 for no match
AIMatchAt(data, i) ==
    IF i + 1 > Len(data) \/ data[i + 1] # "(" THEN 0
    ELSE LET ks == {k \in 2..4 : /\ i + k + 2 <= Len(data)
                                 /\ \A d \in 1..k : data[i + 1 + d] \in Digits
                                 /\ data[i + k + 2] = ")"}
         IN  IF ks = {} THEN 0 ELSE CHOOSE k \in ks : TRUE

\* AI_PATTERN.search(data, pos): the position of the first match at or after pos, -1 for none
SearchAI(data, pos) ==
    LET hits == {i \in pos..(Len(data) - 1) : AIMatchAt(data, i) > 0}
    IN  IF hits = {} THEN -1 ELSE CHOOSE i \in hits : \A j \in hits : i <= j

\* FIXED_LENGTH.get(ai), 0 for None
FixedLength(ai) ==
    IF ai = <<"0", "1">> THEN 14
    ELSE IF ai \in {<<"1", "7">>, <<"1", "5">>} THEN 6
    ELSE 0

RECURSIVE ParseParen(_, _, _, _)
\* the while loop of parse_gs1: [gtin |-> result.get("01"), any |-> result is not empty]
ParseParen(data, pos, gtin, any) ==
    LET i == SearchAI(data, pos)
    IN  IF i < 0 THEN [gtin |-> gtin, any |-> any]
        ELSE LET k == AIMatchAt(data, i)
                 ai == Slice(data, i + 1, i + 1 + k)
                 start == i + k + 2
                 length == FixedLength(ai)
             IN  IF length > 0
                 THEN ParseParen(data, start + length,
                                 IF ai = <<"0", "1">> THEN Slice(data, start, start + length) ELSE gtin,
                                 TRUE)
                 ELSE LET nxt == SearchAI(data, start)
                      IN  ParseParen(data, IF nxt < 0 THEN Len(data) ELSE nxt, gtin, TRUE)

\* parse_gs1(data).get("01"): NoStr for None
extract_gtin(data) ==
    IF data = <<>> THEN NoStr
    ELSE LET r == ParseParen(data, 0, NoStr, FALSE)
         IN  IF ~r.any /\ StartsWith(data, <<"0", "1">>) /\ Len(data) >= 16
             THEN Slice(data, 2, 16)
             ELSE r.gtin

(***************************************************************************)
(* processor.py: rows                                                      *)
(***************************************************************************)
RECURSIVE LeadingDigits(_)
\* DIGITS_ONLY.match(value): the run of digits the value starts with
LeadingDigits(s) ==
    IF s = <<>> \/ s[1] \notin Digits THEN <<>>
    ELSE <<s[1]>> \o LeadingDigits(Tail(s))

\* the display value of _display_value_for(b)
_display_value_for(b) ==
    IF ~_is_gs1_databar(b.barcode_type, b.barcode_value) THEN b.barcode_value
    ELSE IF StartsWith(b.barcode_value, <<"(">>) THEN b.barcode_value
    ELSE LET g0 == extract_gtin(b.barcode_value)
             m == LeadingDigits(b.barcode_value)
             gtin == IF g0 # NoStr /\ g0 # <<>> THEN g0
                     ELSE IF Len(m) >= 14 THEN Slice(m, 0, 14) ELSE g0
         IN  IF gtin # NoStr /\ Len(gtin) = 14 THEN <<"0", "1">> \o gtin ELSE b.barcode_value

ALLOWED_WEB_TYPES == {"UPC-A", "EAN-13", "UPC-E", "EAN-8"}

\* names the collaborators (OCR, product lookups) may answer: none, a product
\* name, a page title that _validate_name rejects
GoodName == <<"Acme Cola">>
BadName == <<"upc lookup">>
NameAnswers == {NoStr, GoodName, BadName}

_validate_name(candidate, barcode_value) ==
    IF candidate = GoodName THEN candidate ELSE NoStr

\* a lookup is configured: deep lookup with its keys, the free lookup or the catalog lookup
AnyLookup(o) == (o.deep_lookup /\ o.keys) \/ o.free_lookup \/ o.lookup

\* item_name of the row of b; answer is what every collaborator asked answers
RowName(b, o, answer) ==
    LET is_price == _is_price_embedded(b.barcode_type, b.barcode_value)
        bold == IF is_price /\ o.ocr THEN answer ELSE NoStr
        candidates == Slice(normalize_candidates(b.barcode_value, b.barcode_type), 0, 2)
        name == IF bold = NoStr /\ b.barcode_type \in ALLOWED_WEB_TYPES /\ ~is_price
                THEN IF AnyLookup(o) /\ candidates # <<>> /\ answer # NoStr THEN answer
                     ELSE IF o.ocr THEN answer
                     ELSE NoStr
                ELSE bold
    IN  _validate_name(name, b.barcode_value)

difficult_indicators ==
    {<<"d", "o", "u", "b", "l", "e">>,
     <<"D", "o", "u", "b", "l", "e">>,
     <<"s", "h", "a", "r", "p">>,
     <<"h", "u", "g", "e">>,
     <<"u", "p", "s", "c", "a", "l", "e">>,
     <<"e", "n", "h", "a", "n", "c", "e", "d">>,
     <<"f", "a", "l", "l", "b", "a", "c", "k">>,
     <<"g", "r", "i", "d">>,
     <<"c", "r", "o", "p">>,
     <<"r", "o", "t", "a", "t", "i", "o", "n">>}

is_difficult(detection_method) ==
    /\ detection_method # NoStr
    /\ \E indicator \in difficult_indicators : Contains(detection_method, indicator)

RowNotes(b, o) ==
    IF _is_price_embedded(b.barcode_type, b.barcode_value) THEN "Price-Embedded"
    ELSE IF o.mark_uncertain /\ is_difficult(b.detection_method)
    THEN "Difficult barcode detection - multiple barcodes may exist, please verify"
    ELSE None

RowOf(b, o, answer) ==
    RowDraft(b.barcode_type, _display_value_for(b), RowName(b, o, answer), RowNotes(b, o))

\* lines 300-308: the OCR recovery of a printed UPC/EAN when no UPC/EAN was decoded
OcrRecovery(bs, o, ocr_answer) ==
    LET has_upcean == \E i \in 1..Len(bs) : bs[i].barcode_type \in UpcEanTypes
        has_gs1_only == ~has_upcean /\ \E i \in 1..Len(bs) : HasDataBar(bs[i].barcode_type)
    IN  IF has_gs1_only /\ o.ocr /\ ocr_answer # NoStr /\ Len(ocr_answer) \in {12, 13, 8}
        THEN <<Detected(IF Len(ocr_answer) = 13 THEN "EAN-13"
                        ELSE IF Len(ocr_answer) = 12 THEN "UPC-A" ELSE "EAN-8",
                        ocr_answer, <<>>, NoStr)>>
        ELSE bs

\* lines 311-319: Code 128 displaces DataBar and UPC/EAN entries
Code128Preference(bs) ==
    LET has_code128 == \E i \in 1..Len(bs) : IsCode128(bs[i].barcode_type)
        has_databar == \E i \in 1..Len(bs) : HasDataBar(bs[i].barcode_type)
        has_upcean_types == \E i \in 1..Len(bs) : bs[i].barcode_type \in UpcEanTypes
        b1 == IF has_code128 /\ has_databar
              THEN SelectSeq(bs, LAMBDA b : ~HasDataBar(b.barcode_type))
              ELSE bs
    IN  IF has_code128 /\ has_upcean_types
        THEN SelectSeq(b1, LAMBDA b : b.barcode_type \notin UpcEanTypes)
        ELSE b1

\* lines 298-308: the list process_image_to_rows passes to _dedupe_and_filter
DedupeInput(bs, o, ocr_answer) ==
    LET b0 == SelectSeq(bs, LAMBDA b : b.barcode_type \notin {"Data Matrix", "QR Code", "QRCode"})
    IN  OcrRecovery(b0, o, ocr_answer)

\* line 310
DedupeCall(bs, o, ocr_answer) ==
    [barcodes |-> DedupeInput(bs, o, ocr_answer),
     unique |-> _dedupe_and_filter(DedupeInput(bs, o, ocr_answer))]

NoDedupe == [barcodes |-> <<>>, unique |-> <<>>]

\* the detections process_image_to_rows makes rows of, in row order
Reconciled(bs, o, ocr_answer) ==
    Code128Preference(_dedupe_and_filter(DedupeInput(bs, o, ocr_answer)))

process_image_to_rows(bs, o, ocr_answer, answer) ==
    LET final == Reconciled(bs, o, ocr_answer)
    IN  [i \in 1..Len(final) |-> RowOf(final[i], o, answer)]

(***************************************************************************)
(* barcode_parser.py: the decoder boundary                                 *)
(*                                                                         *)
(* A raw zxing result is [format, text, position]; position is the four    *)
(* corner points, <<>> when the decoder reports none.  A decoder answer is *)
(* [err, syms]: err for a raised DecodeError, else the list of results.    *)
(***************************************************************************)
FRIENDLY_FORMAT(fmt) ==
    CASE fmt = "BarcodeFormat.UPCA" -> "UPC-A"
      [] fmt = "BarcodeFormat.UPCE" -> "UPC-E"
      [] fmt = "BarcodeFormat.EAN13" -> "EAN-13"
      [] fmt = "BarcodeFormat.EAN8" -> "EAN-8"
      [] fmt = "BarcodeFormat.CODE128" -> "Code 128"
      [] fmt = "BarcodeFormat.CODE39" -> "Code 39"
      [] fmt = "BarcodeFormat.ITF" -> "ITF"
      [] fmt = "BarcodeFormat.QRCode" -> "QR Code"
      [] fmt = "BarcodeFormat.DataMatrix" -> "Data Matrix"
      [] fmt = "BarcodeFormat.RSS14" -> "GS1 DataBar"
      [] fmt = "BarcodeFormat.RSS_EXPANDED" -> "GS1 DataBar Expanded"
      [] OTHER -> fmt

_friendly_format(fmt_obj) == FRIENDLY_FORMAT(fmt_obj)

\* _extract_quad on a position with its four corners
_extract_quad(position) == position

RECURSIVE _to_detected(_)
_to_detected(results) ==
    IF results = <<>> THEN <<>>
    ELSE LET r == Head(results)
         IN  (IF r.text # <<>>
              THEN <<Detected(_friendly_format(r.format), r.text, _extract_quad(r.position), NoStr)>>
              ELSE <<>>) \o _to_detected(Tail(results))

\* int(x * inv) with inv = 1.0 / scale and scale = num / den, for x >= 0
MapCoord(x, num, den) == (x * den) \div num

RECURSIVE MapQuad(_, _, _, _, _)
MapQuad(quad_raw, ox, oy, num, den) ==
    IF quad_raw = <<>> THEN <<>>
    ELSE <<<<ox + MapCoord(Head(quad_raw)[1], num, den), oy + MapCoord(Head(quad_raw)[2], num, den)>>>>
         \o MapQuad(Tail(quad_raw), ox, oy, num, den)

RECURSIVE _try_decode_with_map(_, _, _, _, _)
\* the detections of _try_decode_with_map for the results of the decoder; scale = num / den
_try_decode_with_map(results, ox, oy, num, den) ==
    IF results = <<>> THEN <<>>
    ELSE LET r == Head(results)
         IN  (IF r.text # <<>>
              THEN <<Detected(_friendly_format(r.format), r.text,
                              MapQuad(_extract_quad(r.position), ox, oy, num, den), NoStr)>>
              ELSE <<>>) \o _try_decode_with_map(Tail(results), ox, oy, num, den)

\* _try_decode: raises on a decoder error (err), else the detections
\* _try_decode_formats: a decoder error gives []
_try_decode_formats(resp) == IF resp.err THEN <<>> ELSE _to_detected(resp.syms)

\* "for r in res: r.detection_method = label"
Tagged(res, label) ==
    [i \in 1..Len(res) |-> [res[i] EXCEPT !.detection_method = label]]

\* expand each grid cell by 30%: int((r - l) * 0.3)
Expand30(n) == (3 * n) \div 10

\* _grid_boxes(w, h, grid): the boxes <<l, t, r, b>> in the order of the loops
_grid_boxes(w, h, grid) ==
    LET cell_w == w \div grid
        cell_h == h \div grid
        Box(gy, gx) ==
            LET l == gx * cell_w
                t == gy * cell_h
                r == IF gx = grid - 1 THEN w ELSE (gx + 1) * cell_w
                b == IF gy = grid - 1 THEN h ELSE (gy + 1) * cell_h
            IN  <<Max2(0, l - Expand30(r - l)), Max2(0, t - Expand30(b - t)),
                  Min2(w, r + Expand30(r - l)), Min2(h, b + Expand30(b - t))>>
        all == [k \in 1..(grid * grid) |-> Box((k - 1) \div grid, (k - 1) % grid)]
    IN  SelectSeq(all, LAMBDA bx : bx[3] - bx[1] > 40 /\ bx[4] - bx[2] > 40)

(***************************************************************************)
(* Sample texts and decoder answers                                        *)
(***************************************************************************)
UPCA_OK == <<"0", "3", "6", "0", "0", "0", "2", "9", "1", "4", "5", "2">>
EAN13_OK == <<"4", "0", "0", "6", "3", "8", "1", "3", "3", "3", "9", "3", "1">>
CODE128_TEXT == <<"4", "0", "0", "6", "3", "8", "1", "3", "3", "3", "9", "3", "1", "X", "Y", "Z">>
DATABAR_TEXT == <<"0", "1", "0", "0", "0", "1", "2", "3", "4", "5", "6", "7", "8", "9", "0", "5">>

QuadOf(x1, y1, x2, y2) == <<<<x1, y1>>, <<x2, y1>>, <<x2, y2>>, <<x1, y2>>>>

RawSym(f, txt, pos) == [format |-> f, text |-> txt, position |-> pos]

rawUpc == RawSym("BarcodeFormat.UPCA", UPCA_OK, QuadOf(10, 20, 110, 60))
rawVert == RawSym("BarcodeFormat.RSS14", DATABAR_TEXT, QuadOf(10, 20, 50, 120))
rawCode128 == RawSym("BarcodeFormat.CODE128", CODE128_TEXT, QuadOf(10, 80, 210, 120))
rawBlank == RawSym("BarcodeFormat.UPCA", <<>>, QuadOf(10, 20, 110, 60))
rawNoPos == RawSym("BarcodeFormat.EAN13", EAN13_OK, <<>>)
\* a Code 128 symbol that encodes the text of the UPC-A symbol
rawCode128Upc == RawSym("BarcodeFormat.CODE128", UPCA_OK, QuadOf(10, 80, 210, 120))
\* boxes 100 wide: 130 high, which is 1.3 times the width, and 131 high
rawEdge == RawSym("BarcodeFormat.RSS14", DATABAR_TEXT, QuadOf(10, 20, 110, 150))
rawOver == RawSym("BarcodeFormat.RSS14", DATABAR_TEXT, QuadOf(10, 20, 110, 151))

\* result lists the zxing decoder may give for a buffer
ZxAnswers ==
    {<<>>, <<rawUpc>>, <<rawVert>>, <<rawBlank>>, <<rawCode128>>, <<rawCode128, rawUpc>>,
     <<rawNoPos, rawVert>>, <<rawEdge>>, <<rawOver>>, <<rawUpc, rawCode128Upc>>}

\* the symbologies a format mask lets the decoder report
MaskTypes(mask) ==
    CASE mask = "upcean" -> UpcEanTypes
      [] mask = "1d" -> UpcEanTypes \cup {"Code 128"}
      [] mask = "code128" -> {"Code 128"}
      [] OTHER -> {"UPC-A", "UPC-E", "EAN-13", "EAN-8", "Code 128", "Code 39", "ITF",
                   "QR Code", "Data Matrix", "GS1 DataBar", "GS1 DataBar Expanded"}

DecodeError == [err |-> TRUE, syms |-> <<>>]

\* what zxingcpp.read_barcodes may do on one buffer under a mask
ZxResponses(mask) ==
    {[err |-> FALSE, syms |-> s] :
        s \in {a \in ZxAnswers : \A i \in 1..Len(a) : _friendly_format(a[i].format) \in MaskTypes(mask)}}
    \cup {DecodeError}

ZbarSym(ty, data) == [type |-> ty, data |-> data]

\* what zbar_decode(rot_img, symbols=[CODE128]) may do: reads of 5, 10 and 16 characters
ZbarResponses ==
    {[err |-> FALSE, syms |-> s] :
        s \in {<<>>,
               <<ZbarSym("CODE128", <<"1", "2", "3", "4", "5">>)>>,
               <<ZbarSym("CODE128", <<"1", "2", "3", "4", "5", "6", "7", "8", "9", "0">>)>>,
               <<ZbarSym("CODE128", CODE128_TEXT)>>,
               <<ZbarSym("CODE128", <<"1", "2", "3", "4", "5">>), ZbarSym("CODE128", CODE128_TEXT)>>}}
    \cup {DecodeError}

\* ---- a stubbed decoder: its answer is fixed by the buffer and the format mask ----
\* A buffer is named by the transform that made it from the source image,
\* <<transform, parameter>>.  A stub answers resp on the buffers of its hits and its
\* background answer on every other buffer.
Hit(variant, mask, resp) == [buf |-> <<variant, mask>>, resp |-> resp]

NoStub == [hits |-> {}, bg |-> "unstubbed"]

ShortRead == ZbarSym("CODE128", <<"1", "2", "3", "4", "5">>)

\* the background answer: nothing, a symbol without text (a short read for zbar), an error
Background(buf) ==
    CASE stub.bg = "error" -> DecodeError
      [] stub.bg = "blank" ->
           IF buf[1][1] = "code128-focused" THEN [err |-> FALSE, syms |-> <<ShortRead>>]
           ELSE IF "UPC-A" \in MaskTypes(buf[2]) THEN [err |-> FALSE, syms |-> <<rawBlank>>]
           ELSE [err |-> FALSE, syms |-> <<>>]
      [] OTHER -> [err |-> FALSE, syms |-> <<>>]

StubAnswer(buf) ==
    LET hs == {h \in stub.hits : h.buf = buf}
    IN  IF hs # {} THEN (CHOOSE h \in hs : TRUE).resp ELSE Background(buf)

\* what the decoder may answer on a buffer: anything the mask allows, or what the stub fixes
Responses(buf, all) == IF stub = NoStub THEN all ELSE {StubAnswer(buf)}

RECURSIVE FirstLongCode128(_)
\* the loop "for r in decoded" of _code128_focused: the first read it returns, else []
FirstLongCode128(decoded) ==
    IF decoded = <<>> THEN <<>>
    ELSE LET r == Head(decoded)
         IN  IF r.type = "CODE128" /\ r.data # <<>> /\ Len(r.data) > 10
             THEN <<Detected("Code 128", r.data, <<>>, NoStr)>>
             ELSE FirstLongCode128(Tail(decoded))

\* the corners a decoder result carries, as the box <<width, height>> around them
BoxOf(r) ==
    LET n == Len(r.position)
        xs == [i \in 1..n |-> r.position[i][1]]
        ys == [i \in 1..n |-> r.position[i][2]]
    IN  <<SeqMax(xs, n) - SeqMin(xs, n), SeqMax(ys, n) - SeqMin(ys, n)>>

RECURSIVE Boxes(_)
\* the boxes of the results that carry a position, in the order of the answer
Boxes(syms) ==
    IF syms = <<>> THEN <<>>
    ELSE IF Head(syms).position = <<>> THEN Boxes(Tail(syms))
    ELSE <<BoxOf(Head(syms))>> \o Boxes(Tail(syms))

\* the orientation test without its 30% margin: any box higher than wide
IsVerticalSymTaller(r) ==
    /\ r.position # <<>>
    /\ BoxOf(r)[2] > BoxOf(r)[1]

\* the quick scan saw a symbol whose box is more than 1.3 times higher than wide
IsVerticalSym(r) ==
    /\ r.position # <<>>
    /\ LET n == Len(r.position)
           xs == [i \in 1..n |-> r.position[i][1]]
           ys == [i \in 1..n |-> r.position[i][2]]
           width == SeqMax(xs, n) - SeqMin(xs, n)
           height == SeqMax(ys, n) - SeqMin(ys, n)
       IN  10 * height > 13 * width

(***************************************************************************)
(* barcode_parser.py: detect_barcodes                                      *)
(***************************************************************************)
\* sizes <<W, H>> of the images tried: one on each side of every size test, and a
\* strip one pixel wide
ImageSizes ==
    {<<60, 60>>, <<800, 600>>, <<1500, 1000>>, <<1900, 1200>>,
     <<2100, 1400>>, <<2300, 1500>>, <<3000, 2000>>, <<1, 3000>>}

\* max_side: 0 for None
MaxSides == {0, 1000}

\* base.size: the image downscaled when its longest side exceeds max_side
BaseSize(sz, ms) ==
    LET longest == Max2(sz[1], sz[2])
    IN  IF ms # 0 /\ longest > ms
        THEN <<(sz[1] * ms) \div longest, (sz[2] * ms) \div longest>>
        ELSE sz

BaseMax == Max2(BaseSize(imgSize, max_side)[1], BaseSize(imgSize, max_side)[2])

\* the cells of the 3x3 grid fallback, on img.size
GridCells == _grid_boxes(imgSize[1], imgSize[2], 3)

\* channels r, g, b and v of _code128_focused
TerminalChannels == 4
TerminalKernels == 1
TerminalInversions == 2
TerminalScales == 3
TerminalAngles == 7
TerminalAttempts ==
    TerminalChannels * TerminalKernels * TerminalInversions * TerminalScales * TerminalAngles

\* the steps in the order of the tier numbers: tier 1 before the fast path of tier 2
StepsInTierOrder ==
    <<"quick", "pre_rot", "variants", "agg_angles", "agg_upscale", "upscale", "grid",
      "fmt1d", "upc_contrast", "upc_upscaled", "upc_triple", "double_sharp",
      "high_contrast", "huge", "code128_large", "code128_img", "terminal">>

\* the decode steps of detect_barcodes in the order of the code
Steps ==
    <<"quick", "pre_rot", "agg_angles", "agg_upscale", "variants", "upscale", "grid",
      "fmt1d", "upc_contrast", "upc_upscaled", "upc_triple", "double_sharp",
      "high_contrast", "huge", "code128_large", "code128_img", "terminal">>

\* the condition under which the code reaches a step once the steps before it gave nothing
Applicable(step, vert) ==
    CASE step = "quick" -> TRUE
      [] step = "pre_rot" -> vert
      [] step = "agg_angles" -> aggressive
      [] step = "agg_upscale" -> aggressive /\ BaseMax < 1800
      [] step = "variants" -> TRUE
      [] step = "upscale" -> BaseMax < 1200
      [] step = "grid" -> aggressive /\ GridCells # <<>>
      [] step = "fmt1d" -> TRUE
      [] step = "upc_contrast" -> aggressive
      [] step = "upc_upscaled" -> aggressive /\ BaseMax < 2200
      [] step = "upc_triple" -> aggressive
      [] step = "double_sharp" -> aggressive
      [] step = "high_contrast" -> aggressive
      [] step = "huge" -> aggressive /\ BaseMax < 2000
      [] step = "code128_large" -> aggressive /\ BaseMax >= 2000
      [] step = "code128_img" -> aggressive
      [] step = "terminal" -> aggressive /\ haveZbar

StepIndex(step) == CHOOSE i \in 1..Len(Steps) : Steps[i] = step

\* where the run goes when the step gave nothing: the next step the code reaches, or the end
NextPc(step, vert) ==
    LET later == {i \in (StepIndex(step) + 1)..Len(Steps) : Applicable(Steps[i], vert)}
    IN  IF later = {} THEN "exhausted"
        ELSE Steps[CHOOSE i \in later : \A j \in later : i <= j]

\* one decoder invocation: the step and tier (0: the orientation pre-check, 1-7: the
\* tiers of the general cascade) that made it, the image variant <<transform, parameter>>
\* and format mask it was made on, and whether the step got detections from it
Call(step, tier, variant, mask, nonempty) ==
    [step |-> step, tier |-> tier, variant |-> variant, mask |-> mask, nonempty |-> nonempty]

\* the decoder answered resp: it raised nothing and found no symbol
EmptyAnswer(resp) == ~resp.err /\ resp.syms = <<>>

\* the exceptions met once the decoder answered resp
Met(resp) == IF resp.err THEN errors \cup {"DecodeError"} ELSE errors

\* Image.resize raises ValueError for a size with a side below 1
ResizeFails(size) == size[1] < 1 \/ size[2] < 1

\* return res
Return(res) ==
    /\ outcome' = "returned"
    /\ result' = res
    /\ pc' = "done"
    /\ idx' = 0

\* the exception leaves detect_barcodes
Raise ==
    /\ outcome' = "raised"
    /\ result' = <<>>
    /\ pc' = "done"
    /\ idx' = 0

\* a loop that never moves to its next variant
AdvanceStuck(step, last) ==
    /\ pc' = pc /\ idx' = idx
    /\ UNCHANGED <<result, outcome>>

\* the loop of the step goes on with its next variant, or the run falls through to the next step
Advance(step, last) ==
    /\ IF idx < last
       THEN pc' = pc /\ idx' = idx + 1
       ELSE pc' = NextPc(step, vertical) /\ idx' = 1
    /\ UNCHANGED <<result, outcome>>

\* a step that keeps what it found and goes on decoding
TryDecodeStepNoStop(step, tier, variant, last, label) ==
    /\ pc = step
    /\ \E resp \in Responses(<<variant, "any">>, ZxResponses("any")) :
         LET res == IF resp.err THEN <<>> ELSE _to_detected(resp.syms)
         IN  /\ calls' = Append(calls, Call(step, tier, variant, "any", res # <<>>))
             /\ allEmpty' = (allEmpty /\ EmptyAnswer(resp))
             /\ errors' = Met(resp)
             /\ IF resp.err THEN Raise
                ELSE /\ IF idx < last
                        THEN pc' = pc /\ idx' = idx + 1
                        ELSE pc' = NextPc(step, vertical) /\ idx' = 1
                     /\ result' = IF res # <<>> THEN res ELSE result
                     /\ outcome' = outcome
    /\ UNCHANGED <<aggressive, imgSize, max_side, haveZbar, stub, run, first, vertical, quickBoxes>>
    /\ UNCHANGED <<rvars, svars, nvars, uvars>>

\* a step built on _try_decode: the variant decoded unrestricted, returned as it is or tagged
TryDecodeStep(step, tier, variant, last, label) ==
    /\ pc = step
    /\ \E resp \in Responses(<<variant, "any">>, ZxResponses("any")) :
         LET res == IF resp.err THEN <<>> ELSE _to_detected(resp.syms)
         IN  /\ calls' = Append(calls, Call(step, tier, variant, "any", res # <<>>))
             /\ allEmpty' = (allEmpty /\ EmptyAnswer(resp))
             /\ errors' = Met(resp)
             /\ IF resp.err THEN Raise
                ELSE IF res # <<>> THEN Return(IF label = NoStr THEN res ELSE Tagged(res, label))
                ELSE Advance(step, last)
    /\ UNCHANGED <<aggressive, imgSize, max_side, haveZbar, stub, run, first, vertical, quickBoxes>>
    /\ UNCHANGED <<rvars, svars, nvars, uvars>>

\* a step built on _try_decode_formats: a decoder error counts as nothing found
TryFormatsStep(step, tier, variant, mask, last, label) ==
    /\ pc = step
    /\ \E resp \in Responses(<<variant, mask>>, ZxResponses(mask)) :
         LET res == _try_decode_formats(resp)
         IN  /\ calls' = Append(calls, Call(step, tier, variant, mask, res # <<>>))
             /\ allEmpty' = (allEmpty /\ EmptyAnswer(resp))
             /\ errors' = Met(resp)
             /\ IF res # <<>> THEN Return(IF label = NoStr THEN res ELSE Tagged(res, label))
                ELSE Advance(step, last)
    /\ UNCHANGED <<aggressive, imgSize, max_side, haveZbar, stub, run, first, vertical, quickBoxes>>
    /\ UNCHANGED <<rvars, svars, nvars, uvars>>

\* lines 412-418: the source image is downscaled when its longest side exceeds max_side;
\* no try encloses the resize
Downscale ==
    /\ pc = "load"
    /\ IF BaseSize(imgSize, max_side) # imgSize /\ ResizeFails(BaseSize(imgSize, max_side))
       THEN Raise /\ errors' = errors \cup {"TransformError"}
       ELSE /\ pc' = "quick" /\ idx' = 1
            /\ UNCHANGED <<result, outcome, errors>>
    /\ UNCHANGED <<aggressive, imgSize, max_side, haveZbar, stub, run, first, vertical, quickBoxes, calls,
                   allEmpty>>
    /\ UNCHANGED <<rvars, svars, nvars, uvars>>

\* lines 423-463: the quick unrestricted scan of the base image; its results are only
\* examined for a vertical symbol, and a failure of the scan is passed over
PreCheckQuick ==
    /\ pc = "quick"
    /\ \E resp \in Responses(<<<<"base", 0>>, "any">>, ZxResponses("any")) :
         LET vert == ~resp.err /\ \E i \in 1..Len(resp.syms) : IsVerticalSym(resp.syms[i])
         IN  /\ calls' = Append(calls, Call("quick", 0, <<"base", 0>>, "any", resp.syms # <<>>))
             /\ allEmpty' = (allEmpty /\ EmptyAnswer(resp))
             /\ errors' = Met(resp)
             /\ vertical' = vert
             /\ quickBoxes' = (IF resp.err THEN <<>> ELSE Boxes(resp.syms))
             /\ pc' = NextPc("quick", vert)
             /\ idx' = 1
    /\ UNCHANGED <<aggressive, imgSize, max_side, haveZbar, stub, run, first, result, outcome>>
    /\ UNCHANGED <<rvars, svars, nvars, uvars>>

\* lines 450-459: rotations by 90 and -90 degrees (the same picture as a rotation by 270)
PreCheckRotate ==
    TryFormatsStep("pre_rot", 0, <<"rotate", IF idx = 1 THEN 90 ELSE 270>>, "upcean", 2,
                   IF idx = 1 THEN <<"u", "p", "c", "-", "v", "e", "r", "t", "i", "c", "a", "l", "-", "r", "o", "t", "a", "t", "e", "d", "-", "9", "0">>
                   ELSE <<"u", "p", "c", "-", "v", "e", "r", "t", "i", "c", "a", "l", "-", "r", "o", "t", "a", "t", "e", "d", "-", "-", "9", "0">>)

AggressiveAnglesList == <<-4, 4, -8>>

\* lines 491-498
AggressiveAngles ==
    TryDecodeStep("agg_angles", 2, <<"rotate", AggressiveAnglesList[idx]>>,
                  Len(AggressiveAnglesList), NoStr)

\* lines 500-506: factors are written in tenths (20 for 2.0)
AggressiveUpscale ==
    TryDecodeStep("agg_upscale", 2, <<"resize", 20>>, 1, NoStr)

\* tier 1 with the rotation by 90 degrees in the place of the one by 270
VariantListRepeated ==
    <<<<"base", 0>>, <<"rotate", 90>>, <<"rotate", 180>>, <<"rotate", 90>>,
      <<"gray-autocontrast", 0>>, <<"contrast", 16>>, <<"sharpen", 1>>>>

\* lines 465-475: the seven variants of tier 1
VariantList ==
    <<<<"base", 0>>, <<"rotate", 90>>, <<"rotate", 180>>, <<"rotate", 270>>,
      <<"gray-autocontrast", 0>>, <<"contrast", 16>>, <<"sharpen", 1>>>>

\* lines 508-511
Variants ==
    TryDecodeStep("variants", 1, VariantList[idx], Len(VariantList), NoStr)

\* the upscale fallback with the factor of the aggressive effort in both efforts
UpscaleFallbackOneFactor ==
    TryDecodeStep("upscale", 3, <<"resize", 22>>, 1, NoStr)

\* lines 513-519
UpscaleFallback ==
    TryDecodeStep("upscale", 3, <<"resize", IF aggressive THEN 22 ELSE 18>>, 1, NoStr)

\* lines 523-537: the cells of the 3x3 grid on the source image, each upscaled to 1600
GridFallback ==
    /\ pc = "grid"
    /\ LET box == GridCells[idx]
           max_dim == Max2(box[3] - box[1], box[4] - box[2])
           num == IF max_dim < 1600 THEN 1600 ELSE 1
           den == IF max_dim < 1600 THEN max_dim ELSE 1
       IN  \E resp \in Responses(<<<<"grid-cell", idx>>, "any">>, ZxResponses("any")) :
             LET res == IF resp.err THEN <<>>
                        ELSE _try_decode_with_map(resp.syms, box[1], box[2], num, den)
             IN  /\ calls' = Append(calls, Call("grid", 4, <<"grid-cell", idx>>, "any", res # <<>>))
                 /\ allEmpty' = (allEmpty /\ EmptyAnswer(resp))
                 /\ errors' = Met(resp)
                 /\ IF resp.err THEN Raise
                    ELSE IF res # <<>> THEN Return(res)
                    ELSE Advance("grid", Len(GridCells))
    /\ UNCHANGED <<aggressive, imgSize, max_side, haveZbar, stub, run, first, vertical, quickBoxes>>
    /\ UNCHANGED <<rvars, svars, nvars, uvars>>

\* lines 540-548
FormatRestricted ==
    TryFormatsStep("fmt1d", 5, <<"base", 0>>, "1d", 1, NoStr)

\* lines 559-565
UpcContrast ==
    TryFormatsStep("upc_contrast", 6, <<"contrast", 18>>, "upcean", 1,
                   <<"u", "p", "c", "-", "c", "o", "n", "t", "r", "a", "s", "t", "-", "e", "n", "h", "a", "n", "c", "e", "d">>)

\* lines 566-574
UpcUpscaled ==
    TryFormatsStep("upc_upscaled", 6, <<"resize", 22>>, "upcean", 1,
                   <<"u", "p", "c", "-", "u", "p", "s", "c", "a", "l", "e", "d">>)

\* lines 575-581
UpcTripleSharpened ==
    TryFormatsStep("upc_triple", 6, <<"sharpen", 3>>, "upcean", 1,
                   <<"u", "p", "c", "-", "t", "r", "i", "p", "l", "e", "-", "s", "h", "a", "r", "p", "e", "n", "e", "d", " ", "(", "d", "i", "f", "f", "i", "c", "u", "l", "t", ")">>)

\* lines 585-591
DoubleSharpened ==
    TryDecodeStep("double_sharp", 6, <<"sharpen", 2>>, 1,
                  <<"d", "o", "u", "b", "l", "e", "-", "s", "h", "a", "r", "p", "e", "n", "e", "d", " ", "(", "d", "i", "f", "f", "i", "c", "u", "l", "t", ")">>)

\* lines 593-600
HighContrast ==
    TryDecodeStep("high_contrast", 6, <<"contrast-20-sharpen", 2>>, 1,
                  <<"h", "i", "g", "h", "-", "c", "o", "n", "t", "r", "a", "s", "t", "-", "e", "n", "h", "a", "n", "c", "e", "d", " ", "(", "d", "i", "f", "f", "i", "c", "u", "l", "t", ")">>)

\* lines 602-610
LargeUpscaled ==
    TryDecodeStep("huge", 6, <<"resize", 25>>, 1,
                  <<"l", "a", "r", "g", "e", "-", "u", "p", "s", "c", "a", "l", "e", "d", " ", "(", "d", "i", "f", "f", "i", "c", "u", "l", "t", ")">>)

\* lines 612-621
Code128LargeUpscaled ==
    TryFormatsStep("code128_large", 6, <<"resize", 15>>, "code128", 1,
                   <<"c", "o", "d", "e", "1", "2", "8", "-", "l", "a", "r", "g", "e", "-", "u", "p", "s", "c", "a", "l", "e", "d", " ", "(", "d", "i", "f", "f", "i", "c", "u", "l", "t", ")">>)

\* the size of code128_img: base scaled so that its longest side is 2400
\* (int(w * scale) with scale = 2400.0 / max(w, h))
Code128ImgSize ==
    LET b == BaseSize(imgSize, max_side)
    IN  <<(b[1] * 2400) \div BaseMax, (b[2] * 2400) \div BaseMax>>

\* lines 625-630: the image handed to _code128_focused, downscaled when the longest
\* side of base exceeds 2400; no try encloses the resize
TerminalDownscale ==
    /\ pc = "code128_img"
    /\ IF BaseMax > 2400 /\ ResizeFails(Code128ImgSize)
       THEN Raise /\ errors' = errors \cup {"TransformError"}
       ELSE /\ pc' = NextPc("code128_img", vertical) /\ idx' = 1
            /\ UNCHANGED <<result, outcome, errors>>
    /\ UNCHANGED <<aggressive, imgSize, max_side, haveZbar, stub, run, first, vertical, quickBoxes, calls,
                   allEmpty>>
    /\ UNCHANGED <<rvars, svars, nvars, uvars>>

\* hasattr(r, 'detection_method') of line 635: a dataclass field with a default is
\* an attribute of every DetectedBarcode
HasDetectionMethodAttr(r) == TRUE

\* lines 633-637: the result of _code128_focused as detect_barcodes returns it
TerminalResult(code128_result) ==
    [i \in 1..Len(code128_result) |->
        IF ~HasDetectionMethodAttr(code128_result[i])
        THEN [code128_result[i] EXCEPT !.detection_method =
                 <<"c", "o", "d", "e", "1", "2", "8", "-", "f", "o", "c", "u", "s", "e", "d", "-", "o", "p", "e", "n", "c", "v", " ", "(", "f", "i", "n", "a", "l", " ", "f", "a", "l", "l", "b", "a", "c", "k", ")">>]
        ELSE code128_result[i]]

\* lines 625-637 with the loops of _code128_focused (lines 741-786): one Code 128-only
\* zbar decode per channel, kernel, inversion, scale and angle; a zbar failure is an empty read
TerminalFallback ==
    /\ pc = "terminal"
    /\ \E resp \in Responses(<<<<"code128-focused", idx>>, "code128">>, ZbarResponses) :
         LET decoded == IF resp.err THEN <<>> ELSE resp.syms
             res == FirstLongCode128(decoded)
         IN  /\ calls' = Append(calls, Call("terminal", 7, <<"code128-focused", idx>>, "code128", res # <<>>))
             /\ allEmpty' = (allEmpty /\ EmptyAnswer(resp))
             /\ errors' = Met(resp)
             /\ IF res # <<>> THEN Return(TerminalResult(res))
                ELSE Advance("terminal", TerminalAttempts)
    /\ UNCHANGED <<aggressive, imgSize, max_side, haveZbar, stub, run, first, vertical, quickBoxes>>
    /\ UNCHANGED <<rvars, svars, nvars, uvars>>

\* line 639
ReturnEmpty ==
    /\ pc = "exhausted"
    /\ Return(<<>>)
    /\ UNCHANGED <<aggressive, imgSize, max_side, haveZbar, stub, run, first, vertical, quickBoxes, calls,
                   allEmpty, errors>>
    /\ UNCHANGED <<rvars, svars, nvars, uvars>>

(***************************************************************************)
(* Specifications.  Each part of the program is exercised by its own       *)
(* specification; the variables of the other parts rest.                   *)
(***************************************************************************)
NoOpts ==
    [ocr |-> FALSE, lookup |-> FALSE, free_lookup |-> FALSE, deep_lookup |-> FALSE,
     keys |-> FALSE, mark_uncertain |-> TRUE]

\* no first call yet
NoRun == [calls |-> <<>>, result |-> <<>>, outcome |-> "none", rows |-> <<>>]

CRest ==
    /\ aggressive = FALSE /\ imgSize = <<800, 600>> /\ max_side = 0 /\ haveZbar = FALSE
    /\ pc = "rest" /\ idx = 0 /\ vertical = FALSE /\ quickBoxes = <<>>
    /\ calls = <<>> /\ result = <<>>
    /\ outcome = "rest" /\ allEmpty = TRUE /\ errors = {}
    /\ stub = NoStub /\ run = 1 /\ first = NoRun

RRest ==
    /\ barcodes = <<>> /\ opts = NoOpts /\ upc_ocr = NoStr /\ nameAnswer = NoStr
    /\ kept = <<>> /\ dedupeCall = NoDedupe /\ rows = <<>> /\ rstate = "rest"

SRest == stackIn = <<>> /\ stackOut = <<>> /\ sstate = "rest"

NRest ==
    /\ normValue = <<>> /\ normType = "UPC-A" /\ normOut = <<>> /\ nstate = "rest"
    /\ normPrev = NoStr

URest ==
    /\ try_fallback = TRUE /\ hybridAnswer = <<>> /\ hybridCalls = 0
    /\ unified = <<>> /\ ustate = "rest"

\* ---- detect_barcodes: one call, from its entry to its return or exception ----
CInit ==
    /\ aggressive \in BOOLEAN
    /\ imgSize \in ImageSizes
    /\ max_side \in MaxSides
    /\ haveZbar \in BOOLEAN
    /\ pc = "load" /\ idx = 1 /\ vertical = FALSE /\ quickBoxes = <<>>
    /\ calls = <<>> /\ result = <<>> /\ outcome = "running" /\ allEmpty = TRUE /\ errors = {}
    /\ stub = NoStub /\ run = 1 /\ first = NoRun

Init == CInit /\ RRest /\ SRest /\ NRest /\ URest

Next ==
    \/ Downscale
    \/ PreCheckQuick
    \/ PreCheckRotate
    \/ AggressiveAngles
    \/ AggressiveUpscale
    \/ Variants
    \/ UpscaleFallback
    \/ GridFallback
    \/ FormatRestricted
    \/ UpcContrast
    \/ UpcUpscaled
    \/ UpcTripleSharpened
    \/ DoubleSharpened
    \/ HighContrast
    \/ LargeUpscaled
    \/ Code128LargeUpscaled
    \/ TerminalDownscale
    \/ TerminalFallback
    \/ ReturnEmpty

Spec == Init /\ [][Next]_vars

\* the call runs on until it returns or raises: nothing suspends it
FairSpec == Spec /\ WF_vars(Next)


(***************************************************************************)
(* Properties of detect_barcodes (Spec, FairSpec)                          *)
(***************************************************************************)
Last(s) == s[Len(s)]

\* C1: the run stops at the first decode attempt of a pre-check rotation or of a tier
\* that gives a non-empty detection list: that attempt is the last decoder invocation of
\* the run, the run has returned, and what it returned is not empty; a return from the
\* terminal fallback is a Code 128 read of more than 10 characters.  (The quick scan
\* that opens the pre-check only looks for a vertical symbol and returns nothing.)
C1_EarlyStop ==
    /\ \A i \in 1..Len(calls) :
          (calls[i].step # "quick" /\ calls[i].nonempty) =>
              /\ i = Len(calls)
              /\ outcome = "returned" /\ pc = "done"
              /\ result # <<>>
              /\ calls[i].step = "terminal" =>
                    \A k \in 1..Len(result) :
                        /\ result[k].barcode_type = "Code 128"
                        /\ Len(result[k].barcode_value) > 10
    /\ (outcome = "returned" /\ result # <<>>) =>
          (calls # <<>> /\ Last(calls).step # "quick" /\ Last(calls).nonempty)

\* a run that returned the detections of the third variant of tier 1
C1_Witness ==
    /\ outcome = "returned" /\ result # <<>>
    /\ Last(calls).step = "variants" /\ Last(calls).variant = <<"rotate", 180>>
    /\ Len(calls) >= 3

TierRank(tier) == CASE tier = 2 -> 1 [] tier = 1 -> 2 [] OTHER -> tier

StepAttempts(step) ==
    CASE step = "pre_rot" -> 2
      [] step = "agg_angles" -> Len(AggressiveAnglesList)
      [] step = "variants" -> Len(VariantList)
      [] step = "grid" -> Len(GridCells)
      [] step = "terminal" -> TerminalAttempts
      [] step = "code128_img" -> 0
      [] OTHER -> 1

RECURSIVE AttemptsFrom(_)
\* the decode attempts of a run in which nothing is found, from step i on
AttemptsFrom(i) ==
    IF i > Len(Steps) THEN 0
    ELSE (IF Applicable(Steps[i], FALSE) THEN StepAttempts(Steps[i]) ELSE 0)
         + AttemptsFrom(i + 1)

\* C4: a run in which every decoder invocation answers the empty list comes to an end:
\* it never raises, it never makes more decode attempts than its steps have variants,
\* and it returns the empty list, with the aggressive flag and without
C4_ExhaustionTerminates ==
    /\ <>(~allEmpty \/ (outcome = "returned" /\ result = <<>>))
    /\ [](allEmpty =>
            /\ outcome # "raised"
            /\ Len(calls) <= AttemptsFrom(1)
            /\ outcome = "returned" => (result = <<>> /\ Len(calls) = AttemptsFrom(1)))

\* an aggressive run that went through the whole terminal fallback and found nothing
C4_Witness ==
    /\ allEmpty /\ outcome = "returned" /\ result = <<>>
    /\ aggressive /\ haveZbar
    /\ Len(calls) > TerminalAttempts

\* C5: every detection of a non-empty list returned by detect_barcodes has a
\* detection_method label
C5_EveryResultLabelled ==
    (outcome = "returned") =>
        \A k \in 1..Len(result) : result[k].detection_method # NoStr

\* ---- process_image_to_rows: one call on a list of detections ----
\* longest list of detections drawn from the core samples
MaxDet == 3

EAN13_OK2 == <<"5", "9", "0", "1", "2", "3", "4", "1", "2", "3", "4", "5", "7">>
EAN8_OK == <<"9", "6", "3", "8", "5", "0", "7", "4">>
\* EAN13_OK with a wrong check digit
EAN13_BAD == <<"4", "0", "0", "6", "3", "8", "1", "3", "3", "3", "9", "3", "2">>
UPCE_TEXT == <<"0", "1", "2", "3", "4", "5", "6", "5">>

QuadA == QuadOf(0, 0, 100, 50)
\* right below QuadA: full horizontal overlap, no vertical overlap
QuadB == QuadOf(0, 200, 100, 250)

CoreSamples ==
    {Detected("EAN-13", EAN13_OK, QuadA, NoStr),
     Detected("EAN-13", EAN13_OK2, QuadB, NoStr),
     Detected("UPC-A", UPCA_OK, QuadA, NoStr),
     Detected("UPC-E", UPCE_TEXT, QuadB, NoStr),
     Detected("EAN-8", EAN8_OK, <<>>, NoStr),
     Detected("Code 128", CODE128_TEXT, QuadA, NoStr),
     Detected("Code 128", <<"A", "B", "C", "1", "2", "3">>, QuadB, NoStr),
     Detected("EAN-13", EAN13_BAD, <<>>, NoStr),
     Detected("GS1 DataBar", DATABAR_TEXT, QuadB, NoStr),
     Detected("QR Code", <<"H", "E", "L", "L", "O">>, <<>>, NoStr)}

\* reads of one symbol with every last digit, and malformed reads: a wrong length, a letter
ProbeValues(t) ==
    CASE t = "EAN-13" ->
           {<<"5", "9", "0", "1", "2", "3", "4", "1", "2", "3", "4", "5">> \o <<d>> : d \in Digits}
           \cup {<<"0", "1", "2", "3", "4", "5", "6", "7", "8", "9", "0", "5">>, <<"5", "9", "0", "1", "2", "3", "4", "1", "2", "3", "4", "X", "7">>}
      [] t = "EAN-8" ->
           {<<"7", "3", "5", "1", "3", "5", "3">> \o <<d>> : d \in Digits}
           \cup {<<"7", "3", "5", "1", "3", "5", "3", "7", "0">>, <<"7", "3", "5", "1", "X", "5", "3", "7">>}
      [] t = "UPC-A" ->
           {<<"0", "1", "2", "3", "4", "5", "6", "7", "8", "9", "0">> \o <<d>> : d \in Digits}
           \cup {<<"5", "9", "0", "1", "2", "3", "4", "1", "2", "3", "4", "5", "7">>, <<"0", "1", "2", "3", "4", "5", "6", "7", "8", "9", "X", "5">>}
      [] t = "UPC-E" ->
           {<<"0", "1", "2", "3", "4", "5", "6", "5">>, <<"0", "1", "2", "3", "4", "5", "6", "0">>, <<"0", "1", "2", "3", "4", "5", "6">>}

ProbeSamples ==
    {Detected(t, v, <<>>, NoStr) : t \in {"EAN-13"}, v \in ProbeValues("EAN-13")}
    \cup {Detected(t, v, <<>>, NoStr) : t \in {"EAN-8"}, v \in ProbeValues("EAN-8")}
    \cup {Detected(t, v, <<>>, NoStr) : t \in {"UPC-A"}, v \in ProbeValues("UPC-A")}
    \cup {Detected(t, v, <<>>, NoStr) : t \in {"UPC-E"}, v \in ProbeValues("UPC-E")}

UPCA_PRICE == <<"2", "0", "1", "2", "3", "4", "5", "6", "7", "8", "9", "9">>
EAN13_PRICE_OK == <<"2", "0", "1", "2", "3", "4", "5", "6", "7", "8", "9", "0", "3">>

\* detection_method values: the labels of detect_barcodes and of detect_barcodes_unified,
\* words of the difficulty convention alone, a label with a capital, the empty string, None
MethodTags ==
    {<<"d", "o", "u", "b", "l", "e", "-", "s", "h", "a", "r", "p", "e", "n", "e", "d", " ", "(", "d", "i", "f", "f", "i", "c", "u", "l", "t", ")">>,
     <<"u", "p", "c", "-", "t", "r", "i", "p", "l", "e", "-", "s", "h", "a", "r", "p", "e", "n", "e", "d", " ", "(", "d", "i", "f", "f", "i", "c", "u", "l", "t", ")">>,
     <<"u", "p", "c", "-", "c", "o", "n", "t", "r", "a", "s", "t", "-", "e", "n", "h", "a", "n", "c", "e", "d">>,
     <<"u", "p", "c", "-", "u", "p", "s", "c", "a", "l", "e", "d">>,
     <<"l", "a", "r", "g", "e", "-", "u", "p", "s", "c", "a", "l", "e", "d", " ", "(", "d", "i", "f", "f", "i", "c", "u", "l", "t", ")">>,
     <<"u", "p", "c", "-", "v", "e", "r", "t", "i", "c", "a", "l", "-", "r", "o", "t", "a", "t", "e", "d", "-", "9", "0">>,
     <<"z", "x", "i", "n", "g", "-", "c", "p", "p", " ", "(", "a", "g", "g", "r", "e", "s", "s", "i", "v", "e", ")">>,
     <<"z", "x", "i", "n", "g", "-", "c", "p", "p">>,
     <<"h", "u", "g", "e">>,
     <<"f", "a", "l", "l", "b", "a", "c", "k">>,
     <<"g", "r", "i", "d", "-", "c", "e", "l", "l">>,
     <<"c", "r", "o", "p">>,
     <<"r", "o", "t", "a", "t", "i", "o", "n">>,
     <<"D", "o", "u", "b", "l", "e", "-", "p", "a", "s", "s">>,
     <<>>, NoStr}

\* the symbols that carry the tags: plain and price-embedded UPC/EAN, Code 128, DataBar
TagCarriers ==
    {<<"UPC-A", UPCA_OK>>, <<"UPC-A", UPCA_PRICE>>, <<"EAN-13", EAN13_PRICE_OK>>,
     <<"Code 128", CODE128_TEXT>>, <<"GS1 DataBar", DATABAR_TEXT>>}

TaggedSamples ==
    {Detected(c[1], c[2], QuadA, tag) : c \in TagCarriers, tag \in MethodTags}

\* the lists tried: up to MaxDet core samples, every probe alone, before and after a
\* core sample, and every tagged sample alone and after a core sample
InputLists ==
    UNION {[1..n -> CoreSamples] : n \in 0..MaxDet}
    \cup {<<p>> : p \in TaggedSamples}
    \cup {<<c, p>> : p \in TaggedSamples, c \in CoreSamples}
    \cup {<<p>> : p \in ProbeSamples}
    \cup {<<p, c>> : p \in ProbeSamples, c \in CoreSamples}
    \cup {<<c, p>> : p \in ProbeSamples, c \in CoreSamples}

OptionSets ==
    {NoOpts,
     [NoOpts EXCEPT !.ocr = TRUE],
     [NoOpts EXCEPT !.lookup = TRUE, !.mark_uncertain = FALSE],
     [NoOpts EXCEPT !.ocr = TRUE, !.deep_lookup = TRUE, !.keys = TRUE],
     [NoOpts EXCEPT !.deep_lookup = TRUE]}

\* answers of ocr_upcean_digit_band(...) or ocr_upcean_numeric(...): None, and digit
\* strings of 13 (valid and invalid check digit), 12, 8 and 5 characters
OcrAnswers ==
    {NoStr, EAN13_OK, EAN13_BAD, <<"0", "1", "2", "3", "4", "5", "6", "7", "8", "9", "0", "5">>,
     EAN8_OK, <<"1", "2", "3", "4", "5">>}

RInit ==
    /\ barcodes \in InputLists
    /\ opts \in OptionSets
    /\ upc_ocr \in (IF opts.ocr THEN OcrAnswers ELSE {NoStr})
    /\ nameAnswer \in (IF opts.ocr \/ AnyLookup(opts) THEN NameAnswers ELSE {NoStr})
    /\ kept = <<>> /\ dedupeCall = NoDedupe /\ rows = <<>> /\ rstate = "input"

ProcessImage ==
    /\ rstate = "input"
    /\ rows' = process_image_to_rows(barcodes, opts, upc_ocr, nameAnswer)
    /\ kept' = Reconciled(barcodes, opts, upc_ocr)
    /\ dedupeCall' = DedupeCall(barcodes, opts, upc_ocr)
    /\ rstate' = "done"
    /\ UNCHANGED <<barcodes, opts, upc_ocr, nameAnswer>>
    /\ UNCHANGED <<cvars, svars, nvars, uvars>>

ReconInit == CRest /\ RInit /\ SRest /\ NRest /\ URest
ReconNext == ProcessImage
SpecRecon == ReconInit /\ [][ReconNext]_vars


\* ---- two calls of detect_barcodes, each followed by process_image_to_rows, on one
\* ---- image with one stubbed decoder and the same options ----
\* most buffers a stub answers with symbols
MaxHits == 2

Found(syms) == [err |-> FALSE, syms |-> syms]

\* the answers with symbols a stub may give, by buffer
HitChoices ==
    {Hit(<<"base", 0>>, "any", Found(<<rawUpc>>)),
     Hit(<<"base", 0>>, "any", Found(<<rawVert>>)),
     Hit(<<"rotate", 90>>, "upcean", Found(<<rawUpc>>)),
     Hit(<<"sharpen", 1>>, "any", Found(<<rawNoPos, rawVert>>)),
     Hit(<<"grid-cell", 5>>, "any", Found(<<rawUpc>>)),
     Hit(<<"base", 0>>, "1d", Found(<<rawCode128, rawUpc>>)),
     Hit(<<"sharpen", 2>>, "any", Found(<<rawCode128>>)),
     Hit(<<"code128-focused", TerminalAttempts>>, "code128",
         Found(<<ShortRead, ZbarSym("CODE128", CODE128_TEXT)>>))}

\* the stubs tried: up to MaxHits hits on different buffers, and each background answer
StubFamily ==
    {[hits |-> hs, bg |-> b] :
        hs \in {s \in SUBSET HitChoices :
                   /\ Cardinality(s) <= MaxHits
                   /\ \A x, y \in s : x.buf = y.buf => x = y},
        b \in {"empty", "blank", "error"}}

TwoSizes == {<<800, 600>>, <<3000, 2000>>}

\* the options of the two calls and what the OCR and naming collaborators answer for the image
TwoEnvs ==
    {<<NoOpts, NoStr, NoStr>>,
     <<[NoOpts EXCEPT !.ocr = TRUE], NoStr, NoStr>>,
     <<[NoOpts EXCEPT !.ocr = TRUE], EAN13_OK, GoodName>>}

TwoInit ==
    /\ aggressive \in BOOLEAN
    /\ imgSize \in TwoSizes
    /\ max_side = 0
    /\ haveZbar \in BOOLEAN
    /\ pc = "load" /\ idx = 1 /\ vertical = FALSE /\ quickBoxes = <<>>
    /\ calls = <<>> /\ result = <<>> /\ outcome = "running" /\ allEmpty = TRUE /\ errors = {}
    /\ stub \in StubFamily /\ run = 1 /\ first = NoRun
    /\ \E e \in TwoEnvs : opts = e[1] /\ upc_ocr = e[2] /\ nameAnswer = e[3]
    /\ barcodes = <<>> /\ kept = <<>> /\ dedupeCall = NoDedupe /\ rows = <<>> /\ rstate = "pending"
    /\ SRest /\ NRest /\ URest

\* process_image_to_rows on what detect_barcodes returned; no rows after an exception
ProcessDetected ==
    /\ pc = "done" /\ rstate = "pending"
    /\ IF outcome = "returned"
       THEN /\ barcodes' = result
            /\ rows' = process_image_to_rows(result, opts, upc_ocr, nameAnswer)
            /\ kept' = Reconciled(result, opts, upc_ocr)
            /\ dedupeCall' = DedupeCall(result, opts, upc_ocr)
       ELSE UNCHANGED <<barcodes, rows, kept, dedupeCall>>
    /\ rstate' = "done"
    /\ UNCHANGED <<opts, upc_ocr, nameAnswer>>
    /\ UNCHANGED <<cvars, svars, nvars, uvars>>

\* the second call begins as if the first had kept the orientation it found
SecondRunKeepsOrientation ==
    /\ run = 1 /\ rstate = "done"
    /\ first' = [calls |-> calls, result |-> result, outcome |-> outcome, rows |-> rows]
    /\ run' = 2
    /\ pc' = NextPc("quick", vertical) /\ idx' = 1 /\ vertical' = vertical /\ quickBoxes' = quickBoxes
    /\ calls' = <<>> /\ result' = <<>> /\ outcome' = "running" /\ allEmpty' = TRUE
    /\ errors' = {}
    /\ barcodes' = <<>> /\ kept' = <<>> /\ dedupeCall' = NoDedupe /\ rows' = <<>>
    /\ rstate' = "pending"
    /\ UNCHANGED <<aggressive, imgSize, max_side, haveZbar, stub, opts, upc_ocr, nameAnswer>>
    /\ UNCHANGED <<svars, nvars, uvars>>

\* the second call: detect_barcodes is entered again, its locals are new
SecondRun ==
    /\ run = 1 /\ rstate = "done"
    /\ first' = [calls |-> calls, result |-> result, outcome |-> outcome, rows |-> rows]
    /\ run' = 2
    /\ pc' = "load" /\ idx' = 1 /\ vertical' = FALSE /\ quickBoxes' = <<>>
    /\ calls' = <<>> /\ result' = <<>> /\ outcome' = "running" /\ allEmpty' = TRUE
    /\ errors' = {}
    /\ barcodes' = <<>> /\ kept' = <<>> /\ dedupeCall' = NoDedupe /\ rows' = <<>>
    /\ rstate' = "pending"
    /\ UNCHANGED <<aggressive, imgSize, max_side, haveZbar, stub, opts, upc_ocr, nameAnswer>>
    /\ UNCHANGED <<svars, nvars, uvars>>

TwoNext ==
    \/ Next
    \/ ProcessDetected
    \/ SecondRun

SpecTwoRuns == TwoInit /\ [][TwoNext]_vars

C6_Code128Precedence ==
    (rstate = "done" /\ \E i \in 1..Len(barcodes) : barcodes[i].barcode_type = "Code 128") =>
        /\ \A i \in 1..Len(barcodes) :
              barcodes[i].barcode_type = "Code 128" =>
                  \E k \in 1..Len(rows) :
                      /\ rows[k].barcode_type = "Code 128"
                      /\ rows[k].barcode_value = barcodes[i].barcode_value
        /\ \A k \in 1..Len(rows) :
              /\ rows[k].barcode_type \notin UpcEanTypes
              /\ ~HasDataBar(rows[k].barcode_type)

\* the mod-10 check of GS1, counted from the right: the last digit weighs 1, the
\* digits before it 3, 1, 3, ... in turn, and the weighted sum is a multiple of 10
Gs1CheckOk(v) ==
    /\ \A i \in 1..Len(v) : v[i] \in Digits
    /\ LET n == Len(v)
           w(i) == IF (n - i) % 2 = 0 THEN 1 ELSE 3
           Sum[i \in 0..n] == IF i = 0 THEN 0 ELSE Sum[i - 1] + w(i) * DigitVal(v[i])
       IN  Sum[n] % 10 = 0

RightLength(barcode_type) ==
    CASE barcode_type = "EAN-13" -> 13
      [] barcode_type = "EAN-8" -> 8
      [] barcode_type = "UPC-A" -> 12

\* C7: the rows hold at most one row of each of UPC-A, UPC-E, EAN-13 and EAN-8, and
\* the value of every EAN-13, EAN-8 or UPC-A row has 13, 8 or 12 digits and a last
\* digit that is its mod-10 check digit
C7_FamilyAndChecksum ==
    rstate = "done" =>
        /\ \A ty \in UpcEanTypes :
              Cardinality({k \in 1..Len(rows) : rows[k].barcode_type = ty}) <= 1
        /\ \A k \in 1..Len(rows) :
              rows[k].barcode_type \in {"EAN-13", "EAN-8", "UPC-A"} =>
                  /\ Len(rows[k].barcode_value) = RightLength(rows[k].barcode_type)
                  /\ Gs1CheckOk(rows[k].barcode_value)

\* an EAN-13 read with a wrong check digit and two valid EAN-13 reads went in: the
\* first valid one is the only row
C7_Witness ==
    /\ rstate = "done"
    /\ barcodes = <<Detected("EAN-13", EAN13_BAD, <<>>, NoStr),
                    Detected("EAN-13", EAN13_OK, QuadA, NoStr),
                    Detected("EAN-13", EAN13_OK2, QuadB, NoStr)>>
    /\ Len(rows) = 1
    /\ rows[1].barcode_type = "EAN-13" /\ rows[1].barcode_value = EAN13_OK

\* C8: no two rows come from detections whose boxes are stacked (horizontal overlap
\* of at least 60% and vertical overlap of at most 10% of the shorter side)
C8_NoStackedRows ==
    rstate = "done" =>
        \A i, j \in 1..Len(kept) :
            (i # j /\ HasBox(kept[i]) /\ HasBox(kept[j])) =>
                ~StackedBoxes(_bbox_from_quad(kept[i]), _bbox_from_quad(kept[j]))

\* ---- _prefer_topmost_stacked: one call on a list of entries ----
\* longest list of entries
MaxStack == 3

\* quads tried: a reference box, boxes on each side of the 0.1 vertical and the 0.6
\* horizontal threshold against it, boxes far below it, a box further down and to the
\* right that overlaps the shifted box but not the reference box, flat and narrow
\* boxes, a skewed quad, and no quad
QuadCatalog ==
    {QuadOf(0, 0, 100, 50),
     QuadOf(0, 5, 100, 55),
     QuadOf(0, 45, 100, 95),
     QuadOf(0, 44, 100, 94),
     QuadOf(0, 200, 100, 250),
     QuadOf(40, 200, 140, 250),
     QuadOf(41, 200, 140, 250),
     QuadOf(200, 0, 300, 50),
     QuadOf(0, 300, 100, 350),
     QuadOf(80, 400, 180, 450),
     QuadOf(0, 0, 100, 0),
     QuadOf(50, 200, 50, 250),
     <<<<0, 2>>, <<100, 0>>, <<100, 50>>, <<0, 52>>>>,
     <<>>}

EntryNames == <<<<"A">>, <<"B">>, <<"C">>, <<"D">>, <<"E">>>>

\* the lists tried: one to MaxStack entries with quads of the catalog; the entries of
\* a list are told apart by their position in it
SInit ==
    /\ \E n \in 1..MaxStack :
          \E q \in [1..n -> QuadCatalog] :
              stackIn = [i \in 1..n |-> Detected("Code 128", EntryNames[i], q[i], NoStr)]
    /\ stackOut = <<>> /\ sstate = "input"

PreferTopmost ==
    /\ sstate = "input"
    /\ stackOut' = _prefer_topmost_stacked(stackIn)
    /\ sstate' = "done"
    /\ UNCHANGED stackIn
    /\ UNCHANGED <<cvars, rvars, nvars, uvars>>

StackInit == CRest /\ RRest /\ SInit /\ NRest /\ URest
StackNext == PreferTopmost
SpecStack == StackInit /\ [][StackNext]_vars


(***************************************************************************)
(* Properties of _prefer_topmost_stacked (SpecStack)                       *)
(***************************************************************************)
\* the unit cells a side from lo to hi covers
Cells(lo, hi) == {c \in lo..(hi - 1) : TRUE}

\* 10 * (common length of two sides) and the length of the shorter one, at least 1
Common10(a1, a2, b1, b2) == 10 * Cardinality(Cells(a1, a2) \cap Cells(b1, b2))
Shorter(a1, a2, b1, b2) ==
    LET la == Cardinality(Cells(a1, a2))
        lb == Cardinality(Cells(b1, b2))
        m == IF la <= lb THEN la ELSE lb
    IN  IF m < 1 THEN 1 ELSE m

Left(b) == SeqMin([i \in 1..Len(b.quad) |-> b.quad[i][1]], Len(b.quad))
Right(b) == SeqMax([i \in 1..Len(b.quad) |-> b.quad[i][1]], Len(b.quad))
Top(b) == SeqMin([i \in 1..Len(b.quad) |-> b.quad[i][2]], Len(b.quad))
Bottom(b) == SeqMax([i \in 1..Len(b.quad) |-> b.quad[i][2]], Len(b.quad))

\* horizontal overlap ratio >= 0.6 and vertical overlap ratio <= 0.1
StackedPair(a, b) ==
    /\ Common10(Left(a), Right(a), Left(b), Right(b))
          >= 6 * Shorter(Left(a), Right(a), Left(b), Right(b))
    /\ Common10(Top(a), Bottom(a), Top(b), Bottom(b))
          <= Shorter(Top(a), Bottom(a), Top(b), Bottom(b))

\* C9: of two entries with quads, in either order: when they are stacked exactly one
\* survives, the one with the smaller top Y (the first of the two when the tops are
\* equal); when they are not stacked both survive, in their order
C9_StackedPairDecision ==
    (sstate = "done" /\ Len(stackIn) = 2 /\ stackIn[1].quad # <<>> /\ stackIn[2].quad # <<>>) =>
        LET a == stackIn[1]
            b == stackIn[2]
        IN  IF StackedPair(a, b)
            THEN stackOut = IF Top(a) <= Top(b) THEN <<a>> ELSE <<b>>
            ELSE stackOut = stackIn

\* the boxes at y = [200, 250] and y = [0, 50] over the same x-span, the lower one
\* first, collapse to the upper one
C9_Witness ==
    /\ sstate = "done"
    /\ Len(stackIn) = 2
    /\ stackIn[1].quad = QuadOf(0, 200, 100, 250) /\ stackIn[2].quad = QuadOf(0, 0, 100, 50)
    /\ stackOut = <<stackIn[2]>>

\* ---- normalize_candidates: one call on a decoded text and its symbology ----
\* number of leading digits of a tried value that take every digit
NormHead == 1

FillerDigits == <<"3", "6", "0", "0", "0", "2", "9", "1", "4", "5">>

\* 12-digit values: NormHead free digits, a fixed middle, and two free last digits
Values12 ==
    {h \o SubSeq(FillerDigits, 1, 10 - NormHead) \o tl :
        h \in [1..NormHead -> Digits], tl \in [1..2 -> Digits]}

NormTypes == {"UPC-A", "EAN-13", "Code 128"}

\* every symbology name the normalizer tells apart, and two it does not
Symbologies ==
    {"UPC-A", "UPCA", "EAN-13", "EAN-8", "UPC-E", "UPCE", "Code 128",
     "GS1 DataBar", "GS1 DataBar Expanded", "DataBar", "QR Code", "Code 39"}

EAN13_PRICE == <<"2", "0", "1", "2", "3", "4", "5", "6", "7", "8", "9", "0", "5">>
UPCE_SCENARIO == <<"0", "1", "2", "3", "4", "5", "6", "5">>

\* 13-digit values with a leading 2, and one without
Values13 ==
    {EAN13_PRICE,
     <<"2", "0", "1", "2", "3", "4", "5", "6", "0", "0", "0", "0", "0">>,
     <<"2", "9", "8", "7", "6", "5", "4", "0", "0", "1", "9", "9", "3">>,
     <<"2", "0", "0", "0", "0", "0", "0", "0", "0", "0", "0", "0", "0">>,
     <<"4", "0", "0", "6", "3", "8", "1", "3", "3", "3", "9", "3", "1">>}

PriceFields ==
    {Zeros(5)} \cup {<<"0", "1", "2", "9", d>> : d \in Digits}

\* 13-digit values "002" + item digits + price: NormHead free item digits
Values002 ==
    {<<"0", "0", "2">> \o h \o SubSeq(FillerDigits, 7, 11 - NormHead) \o p :
        h \in [1..NormHead -> Digits], p \in PriceFields}

UpceManufacturers ==
    {<<"1", "2", "3", "4", "5">>, <<"0", "0", "0", "0", "0">>, <<"9", "8", "7", "6", "0">>}

\* 8-digit values: number system 0, 1 or 2, every seventh and every eighth digit;
\* and a 6-digit and a 7-digit one
ValuesUpce ==
    {<<ns>> \o m \o <<d7, d8>> :
        ns \in {"0", "1", "2"}, m \in UpceManufacturers, d7 \in Digits, d8 \in Digits}
    \cup {<<"1", "2", "3", "4", "5", "6">>, <<"0", "1", "2", "3", "4", "5", "6">>}

\* decoded texts that are not digit strings
Texts ==
    {<<>>,
     <<"A", "B", "C">>,
     <<" ">>,
     <<"A", "1", "B", "2">>,
     <<"4", "0", "0", "6", "-", "3", "8", "1", "3">>,
     <<"(", "0", "1", ")", "0", "0", "0", "1", "2", "3", "4", "5", "6", "7", "8", "9", "0", "5",
       "(", "1", "0", ")", "A", "7">>,
     <<"0", "1", "0", "0", "0", "1", "2", "3", "4", "5", "6", "7", "8", "9", "0", "5">>,
     <<"0", "0", "0", "1", "2", "3", "4", "5", "6", "7", "8", "9", "0", "5">>}

\* texts of 8 to 11 digits: every first digit, a fixed tail cut at each length; nine
\* zeros; and a text whose ten digits are followed by letters
ValuesShort ==
    {<<d>> \o SubSeq(FillerDigits, 1, n - 1) : d \in Digits, n \in 8..11}
    \cup {Zeros(9),
          <<"4", "0", "0", "6", "3", "8", "1", "3", "3", "3", "X", "Y">>}

\* 13-digit values "2" + item digits + check + price + check: NormHead free item digits
ValuesPrice ==
    {<<"2">> \o h \o SubSeq(FillerDigits, 5, 10 - NormHead) \o p \o <<"7">> :
        h \in [1..NormHead -> Digits], p \in PriceFields}

NInit ==
    /\ \/ normValue \in Values12 /\ normType \in NormTypes
       \/ normValue \in Values13 \cup Values002 \cup ValuesUpce \cup Texts \cup ValuesShort
                        \cup ValuesPrice
          /\ normType \in Symbologies
    /\ normOut = <<>> /\ nstate = "input"
    /\ normPrev = NoStr

Normalize ==
    /\ nstate = "input"
    /\ normOut' = normalize_candidates(normValue, normType)
    /\ nstate' = "done"
    /\ UNCHANGED <<normValue, normType, normPrev>>
    /\ UNCHANGED <<cvars, rvars, svars, uvars>>

\* a caller hands one of the candidates back to normalize_candidates, same symbology
NormalizeAgain ==
    /\ nstate = "done"
    /\ \E k \in 1..Len(normOut) :
          /\ normValue' = normOut[k]
          /\ normOut' = normalize_candidates(normOut[k], normType)
    /\ normPrev' = normValue
    /\ nstate' = "again"
    /\ UNCHANGED normType
    /\ UNCHANGED <<cvars, rvars, svars, uvars>>

NormInit == CRest /\ RRest /\ SRest /\ NInit /\ URest
NormNext == Normalize \/ NormalizeAgain
SpecNorm == NormInit /\ [][NormNext]_vars

(***************************************************************************)
(* Properties of normalize_candidates (SpecNorm)                           *)
(***************************************************************************)
\* C10: for a 12-digit value whose last digit is the UPC-A check digit of the eleven
\* before it, normalize_candidates(value, "UPC-A") is the value and then "00" followed
\* by its first eleven digits
C10_UpcaCandidates ==
    (nstate = "done" /\ normType = "UPC-A" /\ Len(normValue) = 12 /\ Gs1CheckOk(normValue)) =>
        normOut = <<normValue, <<"0", "0">> \o SubSeq(normValue, 1, 11)>>

C10_Witness ==
    /\ nstate = "done" /\ normType = "UPC-A"
    /\ normValue = UPCA_OK
    /\ normOut = <<UPCA_OK, <<"0", "0", "0", "3", "6", "0", "0", "0", "2", "9", "1", "4", "5">>>>

\* C11 (as stated): normalize_candidates("2012345678905", "EAN-13") returns
\* "2012345678905", "0021234500000", "2012345000000" in that order
C11_ScenarioAsStated ==
    (nstate = "done" /\ normType = "EAN-13" /\ normValue = EAN13_PRICE) =>
        normOut = <<EAN13_PRICE,
                    <<"0", "0", "2", "1", "2", "3", "4", "5", "0", "0", "0", "0", "0">>,
                    <<"2", "0", "1", "2", "3", "4", "5", "0", "0", "0", "0", "0", "0">>>>

\* C11: normalize_candidates("2012345678905", "EAN-13") returns the value, then "002"
\* followed by the five digits after the leading 2 ("01234") and five zeros, then the
\* first eight digits of the value ("20123456") and five zeros
C11_PriceEmbeddedScenario ==
    (nstate = "done" /\ normType = "EAN-13" /\ normValue = EAN13_PRICE) =>
        normOut = <<EAN13_PRICE,
                    <<"0", "0", "2", "0", "1", "2", "3", "4", "0", "0", "0", "0", "0">>,
                    <<"2", "0", "1", "2", "3", "4", "5", "6", "0", "0", "0", "0", "0">>>>

C11_Witness ==
    /\ nstate = "done" /\ normType = "EAN-13" /\ normValue = EAN13_PRICE
    /\ Len(normOut) = 3 /\ normOut[1] = EAN13_PRICE

\* the first eleven digits of the UPC-A a UPC-E number d1..d8 stands for, by the
\* zero-suppression table of the UPC-E symbology
StandardUpca11(d) ==
    IF d[7] \in {"0", "1", "2"}
    THEN <<d[1], d[2], d[3], d[7], "0", "0", "0", "0", d[4], d[5], d[6]>>
    ELSE IF d[7] = "3"
    THEN <<d[1], d[2], d[3], d[4], "0", "0", "0", "0", "0", d[5], d[6]>>
    ELSE IF d[7] = "4"
    THEN <<d[1], d[2], d[3], d[4], d[5], "0", "0", "0", "0", "0", d[6]>>
    ELSE <<d[1], d[2], d[3], d[4], d[5], d[6], "0", "0", "0", "0", d[7]>>

\* C12: for an 8-digit value beginning with 0 or 1, normalize_candidates(value, "UPC-E")
\* is the value and then c, the 12-digit UPC-A expansion without its check digit,
\* left-padded to 13; c differs from the value and is the same whatever the eighth
\* digit is; "01234565" gives c = "0001234500006"
C12_UpceCandidates ==
    (nstate = "done" /\ normType = "UPC-E" /\ Len(normValue) = 8 /\ IsDigitStr(normValue)
        /\ normValue[1] \in {"0", "1"}) =>
        /\ normOut = <<normValue, <<"0", "0">> \o StandardUpca11(normValue)>>
        /\ normOut[2] # normValue
        /\ \A d \in Digits :
              normalize_candidates(SubSeq(normValue, 1, 7) \o <<d>>, "UPC-E")[2] = normOut[2]
        /\ (normValue = UPCE_SCENARIO =>
              normOut[2] = <<"0", "0", "0", "1", "2", "3", "4", "5", "0", "0", "0", "0", "6">>)

C12_Witness ==
    /\ nstate = "done" /\ normType = "UPC-E" /\ normValue = UPCE_SCENARIO
    /\ normOut = <<UPCE_SCENARIO,
                   <<"0", "0", "0", "1", "2", "3", "4", "5", "0", "0", "0", "0", "6">>>>

Is002(v) == Len(v) = 13 /\ IsDigitStr(v) /\ StartsWith(v, <<"0", "0", "2">>)

NoPriceOf(v) == SubSeq(v, 1, 8) \o Zeros(5)

\* C13: for a 13-digit value v beginning "002" and any symbology the candidates hold
\* n = the first eight digits of v and five zeros; n again is a 13-digit value beginning
\* "002" whose no-price variant is n, and normalizing n returns n first, once, and no
\* other candidate beginning "002"
C13_NoPriceIdempotent ==
    /\ (nstate = "done" /\ Is002(normValue)) => InSeq(NoPriceOf(normValue), normOut)
    /\ (nstate = "again" /\ Is002(normPrev) /\ normValue = NoPriceOf(normPrev)) =>
          /\ Is002(normValue) /\ NoPriceOf(normValue) = normValue
          /\ Len(normOut) >= 1 /\ normOut[1] = normValue
          /\ \A i \in 2..Len(normOut) :
                normOut[i] # normValue /\ ~StartsWith(normOut[i], <<"0", "0", "2">>)

C13_Witness ==
    /\ nstate = "again" /\ normType = "UPC-A"
    /\ normPrev = <<"0", "0", "2", "7", "9", "1", "4", "5", "0", "1", "2", "9", "5">>
    /\ normValue = <<"0", "0", "2", "7", "9", "1", "4", "5", "0", "0", "0", "0", "0">>
    /\ normOut = <<normValue>>

\* the digits of a text, in order
RECURSIVE DigitProjection(_)
DigitProjection(s) ==
    IF s = <<>> THEN <<>>
    ELSE IF Head(s) \in Digits THEN <<Head(s)>> \o DigitProjection(Tail(s))
    ELSE DigitProjection(Tail(s))

\* C14 (as stated): for every non-empty text and every symbology the list returned has
\* a first element, the digit-only projection of the text
C14_FirstForEveryText ==
    (nstate = "done" /\ normValue # <<>>) =>
        (Len(normOut) >= 1 /\ normOut[1] = DigitProjection(normValue))

\* C14: for every text holding at least one digit and every symbology the list
\* returned has a first element, the digit-only projection of the text; for a text
\* holding no digit the list is empty
C14_FirstWhenSomeDigit ==
    (nstate = "done") =>
        IF \E i \in 1..Len(normValue) : normValue[i] \in Digits
        THEN Len(normOut) >= 1 /\ normOut[1] = DigitProjection(normValue)
        ELSE normOut = <<>>

C14_Witness ==
    /\ nstate = "done" /\ normType = "Code 128"
    /\ normValue = <<"A", "1", "B", "2">>
    /\ normOut = <<<<"1", "2">>>>

(***************************************************************************)
(* unified_barcode_detector.py: detect_barcodes_unified, which calls       *)
(* detect_barcodes (imported as detect_zxing) and works on what it returns *)
(***************************************************************************)
\* "zxing-cpp (aggressive)" if aggressive else "zxing-cpp"
ZxingLabel(aggr) ==
    IF aggr
    THEN <<"z", "x", "i", "n", "g", "-", "c", "p", "p", " ", "(", "a", "g", "g", "r", "e", "s", "s", "i", "v", "e", ")">>
    ELSE <<"z", "x", "i", "n", "g", "-", "c", "p", "p">>

RECURSIVE UnifiedResults(_, _, _)
\* lines 68-74: the detections of the primary detector, the first of each value kept
\* and labelled when it carries no detection_method
UnifiedResults(zxing_results, found_values, aggr) ==
    IF zxing_results = <<>> THEN <<>>
    ELSE LET barcode == Head(zxing_results)
         IN  IF barcode.barcode_value \in found_values
             THEN UnifiedResults(Tail(zxing_results), found_values, aggr)
             ELSE <<IF barcode.detection_method \in {NoStr, <<>>}
                    THEN [barcode EXCEPT !.detection_method = ZxingLabel(aggr)]
                    ELSE barcode>>
                  \o UnifiedResults(Tail(zxing_results),
                                    found_values \cup {barcode.barcode_value}, aggr)

\* what the hybrid detector would find: nothing, or one UPC-A symbol
HybridAnswers ==
    {<<>>, <<Detected("UPC-A", UPCA_OK, <<>>, <<"p", "y", "z", "b", "a", "r">>)>>}

\* detect_barcodes_unified is entered; detect_barcodes_best enters it with try_fallback = True
UInit ==
    /\ aggressive \in BOOLEAN
    /\ imgSize \in TwoSizes
    /\ max_side = 0
    /\ haveZbar \in BOOLEAN
    /\ pc = "load" /\ idx = 1 /\ vertical = FALSE /\ quickBoxes = <<>>
    /\ calls = <<>> /\ result = <<>> /\ outcome = "running" /\ allEmpty = TRUE /\ errors = {}
    /\ stub = NoStub /\ run = 1 /\ first = NoRun
    /\ try_fallback \in BOOLEAN
    /\ hybridAnswer \in HybridAnswers
    /\ hybridCalls = 0 /\ unified = <<>> /\ ustate = "pending"

\* lines 55-76: once detect_zxing is back, its detections are de-duplicated and labelled
\* and returned; its exception goes on to the caller; try_fallback is not read and
\* detect_hybrid is not called
Unify ==
    /\ pc = "done" /\ ustate = "pending"
    /\ IF outcome = "raised"
       THEN unified' = <<>> /\ ustate' = "raised"
       ELSE unified' = UnifiedResults(result, {}, aggressive) /\ ustate' = "returned"
    /\ UNCHANGED <<try_fallback, hybridAnswer, hybridCalls>>
    /\ UNCHANGED <<cvars, rvars, svars, nvars>>

\* cli.py, main, lines 227-234: an image without detections is passed over; of the
\* detections of detect_barcodes_best the first alone is handed to process_image_to_rows
MainImage ==
    /\ ustate = "returned" /\ rstate = "rest"
    /\ IF unified = <<>>
       THEN /\ rstate' = "skipped"
            /\ UNCHANGED <<barcodes, kept, dedupeCall, rows>>
       ELSE /\ barcodes' = <<unified[1]>>
            /\ rows' = process_image_to_rows(barcodes', opts, upc_ocr, nameAnswer)
            /\ kept' = Reconciled(barcodes', opts, upc_ocr)
            /\ dedupeCall' = DedupeCall(barcodes', opts, upc_ocr)
            /\ rstate' = "done"
    /\ UNCHANGED <<opts, upc_ocr, nameAnswer>>
    /\ UNCHANGED <<cvars, svars, nvars, uvars>>

UnifiedInit == UInit /\ RRest /\ SRest /\ NRest
UnifiedNext == Next \/ Unify \/ MainImage
SpecUnified == UnifiedInit /\ [][UnifiedNext]_vars

\* C17: when detect_barcodes_unified has returned and its primary detector had found
\* nothing, then with try_fallback the hybrid detector was invoked once and its
\* detections are the list returned, and without try_fallback it was not invoked and
\* the list returned is empty
C17_FallbackOnEmptyPrimary ==
    (ustate = "returned" /\ result = <<>>) =>
        IF try_fallback
        THEN hybridCalls = 1 /\ unified = hybridAnswer
        ELSE hybridCalls = 0 /\ unified = <<>>

UncertainNote == "Difficult barcode detection - multiple barcodes may exist, please verify"

\* the nine words of the difficulty naming convention
DifficultyWords ==
    {<<"d", "o", "u", "b", "l", "e">>,
     <<"s", "h", "a", "r", "p">>,
     <<"h", "u", "g", "e">>,
     <<"u", "p", "s", "c", "a", "l", "e">>,
     <<"e", "n", "h", "a", "n", "c", "e", "d">>,
     <<"f", "a", "l", "l", "b", "a", "c", "k">>,
     <<"g", "r", "i", "d">>,
     <<"c", "r", "o", "p">>,
     <<"r", "o", "t", "a", "t", "i", "o", "n">>}

HasDifficultyWord(tag) ==
    tag # NoStr /\ \E w \in DifficultyWords : Contains(tag, w)

\* C18: with mark_uncertain set, a row carries the uncertain-detection note exactly when
\* the detection_method of the detection it was made from holds one of the nine words
\* of the difficulty convention, whatever the type and value of the detection
C18_UncertainFlagging ==
    (rstate = "done" /\ opts.mark_uncertain) =>
        \A k \in 1..Len(rows) :
            (rows[k].notes = UncertainNote) <=> HasDifficultyWord(kept[k].detection_method)

(***************************************************************************)
(* Further properties of detect_barcodes (Spec)                            *)
(***************************************************************************)
\* C15: once the decoder has raised a DecodeError in a decode attempt of the run, be it
\* unrestricted, format-restricted or of the orientation pre-check, detect_barcodes
\* has raised
C15_DecodeErrorPropagates ==
    "DecodeError" \in errors => outcome = "raised"

\* C16: a transform that fails on the geometry of the image never makes
\* detect_barcodes raise
C16_TransformFailureSkipped ==
    "TransformError" \in errors => outcome # "raised"

\* the buffer and mask of a decoder invocation
AttemptKey(c) == <<c.variant, c.mask>>

\* C19 (as stated): no two decoder invocations of a run are made on the same image
\* variant with the same format mask
C19_EachAttemptOnce ==
    \A i, j \in 1..Len(calls) : i < j => AttemptKey(calls[i]) # AttemptKey(calls[j])

\* C19: no two decoder invocations of a run are made on the same image variant with the
\* same format mask, but for the unmodified base image decoded unrestricted: the quick
\* scan of the pre-check submits it and the first variant of tier 1 submits it again
C19_OnceButForBase ==
    LET tm == SelectSeq(calls, LAMBDA c : c.step = "terminal")
        nt == SelectSeq(calls, LAMBDA c : c.step # "terminal")
    IN  /\ \A k \in 1..Len(tm) : tm[k].variant = <<"code128-focused", k>>
        /\ \A i \in 1..Len(nt) : nt[i].variant[1] # "code128-focused"
        /\ \A i, j \in 1..Len(nt) :
              (i < j /\ AttemptKey(nt[i]) = AttemptKey(nt[j])) =>
                  /\ i = 1 /\ nt[i].step = "quick" /\ nt[j].step = "variants"
                  /\ AttemptKey(nt[i]) = <<<<"base", 0>>, "any">>
        /\ \A j \in 1..Len(nt) :
              (nt[j].step = "variants" /\ nt[j].variant = <<"base", 0>>) =>
                  AttemptKey(nt[1]) = AttemptKey(nt[j])

\* a run that went past the first variant of tier 1
C19_Witness ==
    /\ Len(calls) >= 3
    /\ calls[1].step = "quick" /\ calls[2].step = "variants"
    /\ AttemptKey(calls[1]) = AttemptKey(calls[2])
    /\ calls[3].variant = <<"rotate", 90>>

\* where the decoder reported the sample symbol with this text
RawPosition(text) ==
    CASE text = UPCA_OK -> rawUpc.position
      [] text = DATABAR_TEXT -> rawVert.position
      [] text = CODE128_TEXT -> rawCode128.position
      [] OTHER -> <<>>

\* the point <<ox + x / s, oy + y / s>> for each point <<x, y>>, s = num / den, rounded down
RECURSIVE ToOriginal(_, _, _, _, _)
ToOriginal(quad, ox, oy, num, den) ==
    IF quad = <<>> THEN <<>>
    ELSE <<<<ox + (Head(quad)[1] * den) \div num, oy + (Head(quad)[2] * den) \div num>>>>
         \o ToOriginal(Tail(quad), ox, oy, num, den)

\* C20: the detections returned from a resized variant of the base image (factor s)
\* have each quad point at <<x / s, y / s>>, and those returned from a grid cell cut at
\* <<ox, oy>> and resized by s at <<ox + x / s, oy + y / s>>, <<x, y>> being the point
\* the decoder reported
C20_QuadsInOriginalCoordinates ==
    (outcome = "returned" /\ result # <<>> /\ Last(calls).variant[1] \in {"resize", "grid-cell"}) =>
        LET v == Last(calls).variant
            box == GridCells[v[2]]
            max_dim == Max2(box[3] - box[1], box[4] - box[2])
            ox == IF v[1] = "grid-cell" THEN box[1] ELSE 0
            oy == IF v[1] = "grid-cell" THEN box[2] ELSE 0
            num == IF v[1] = "resize" THEN v[2] ELSE IF max_dim < 1600 THEN 1600 ELSE 1
            den == IF v[1] = "resize" THEN 10 ELSE IF max_dim < 1600 THEN max_dim ELSE 1
        IN  \A k \in 1..Len(result) :
                result[k].quad = ToOriginal(RawPosition(result[k].barcode_value), ox, oy, num, den)

(***************************************************************************)
(* C21: orientation pre-check                                              *)
(***************************************************************************)
\* a box of the quick scan is more than 1.3 times higher than wide
QuickSawVertical ==
    \E i \in 1..Len(quickBoxes) : 10 * quickBoxes[i][2] > 13 * quickBoxes[i][1]

PreCheckRotations == {i \in 1..Len(calls) : calls[i].step = "pre_rot"}

\* C21: when the quick scan of the unmodified image shows a symbol more than 1.3 times
\* higher than wide, the decodes that follow it are the rotation by +90 and then by -90
\* degrees under the UPC/EAN mask, before any decode of the general cascade; the first
\* of them that gives detections ends the run with those detections; after two empty
\* ones the general cascade starts; when no symbol is vertical no such decode is made;
\* there are never more than two of them
C21_OrientationPreCheck ==
    /\ ~QuickSawVertical => PreCheckRotations = {}
    /\ Cardinality(PreCheckRotations) <= 2
    /\ \A i \in PreCheckRotations :
          /\ i \in {2, 3}
          /\ calls[1].step = "quick" /\ calls[1].variant = <<"base", 0>> /\ calls[1].mask = "any"
          /\ calls[i].mask = "upcean"
          /\ calls[i].variant = <<"rotate", IF i = 2 THEN 90 ELSE 270>>
          /\ \A j \in 2..(i - 1) : j \in PreCheckRotations /\ ~calls[j].nonempty
          /\ calls[i].nonempty =>
                i = Len(calls) /\ pc = "done" /\ outcome = "returned" /\ result # <<>>
    /\ QuickSawVertical =>
          /\ \A i \in 2..Len(calls) : i <= 3 => i \in PreCheckRotations
          /\ Len(calls) = 1 => pc = "pre_rot"
          /\ Len(calls) = 2 /\ ~calls[2].nonempty => pc = "pre_rot"
          /\ Len(calls) = 3 /\ ~calls[3].nonempty =>
                pc = (IF aggressive THEN "agg_angles" ELSE "variants")
          /\ \A i \in 4..Len(calls) : calls[i].tier >= 1

\* the quick scan showed a box 100 wide and 131 high, both rotations gave nothing and
\* the general cascade made a decode
C21_Witness ==
    /\ quickBoxes = <<<<100, 131>>>>
    /\ Len(calls) >= 4
    /\ calls[2].step = "pre_rot" /\ calls[3].step = "pre_rot"
    /\ calls[4].tier >= 1

(***************************************************************************)
(* C22: the decodes of the standard effort                                 *)
(***************************************************************************)
\* the decodes a standard-effort run makes when none of them gives detections, as
\* <<variant, mask>>: the pre-check, tier 1, the upscale by 1.8 of an image whose longest
\* side is below 1200, the pass under the 1D mask
StandardAttempts ==
    LET base == BaseSize(imgSize, max_side)
    IN  <<<<<<"base", 0>>, "any">>>>
        \o (IF QuickSawVertical
            THEN <<<<<<"rotate", 90>>, "upcean">>, <<<<"rotate", 270>>, "upcean">>>>
            ELSE <<>>)
        \o <<<<<<"base", 0>>, "any">>, <<<<"rotate", 90>>, "any">>, <<<<"rotate", 180>>, "any">>,
              <<<<"rotate", 270>>, "any">>, <<<<"gray-autocontrast", 0>>, "any">>,
              <<<<"contrast", 16>>, "any">>, <<<<"sharpen", 1>>, "any">>>>
        \o (IF base[1] < 1200 /\ base[2] < 1200 THEN <<<<<<"resize", 18>>, "any">>>> ELSE <<>>)
        \o <<<<<<"base", 0>>, "1d">>>>

EscalationSteps ==
    {"agg_angles", "agg_upscale", "grid", "upc_contrast", "upc_upscaled", "upc_triple",
     "double_sharp", "high_contrast", "huge", "code128_large", "terminal"}

\* C22: with aggressive false the decodes of detect_barcodes are, in this order, the
\* pre-check, the seven variants of tier 1, the upscale by 1.8 (only when the longest side
\* is below 1200) and one pass on the base image under the 1D mask; none belongs to the
\* aggressive fast path, the grid, the escalation tiers or the terminal fallback
C22_StandardNeverEscalates ==
    ~aggressive =>
        /\ Len(calls) <= Len(StandardAttempts)
        /\ \A i \in 1..Len(calls) :
              /\ <<calls[i].variant, calls[i].mask>> = StandardAttempts[i]
              /\ calls[i].step \notin EscalationSteps
              /\ calls[i].tier \in {0, 1, 3, 5}
        /\ pc \notin EscalationSteps \cup {"code128_img"}

\* a standard-effort run on an image below 1200 that found nothing: ten decodes, the
\* ninth on the upscale by 1.8, the tenth under the 1D mask
C22_Witness ==
    /\ ~aggressive /\ pc = "done" /\ outcome = "returned" /\ result = <<>>
    /\ Len(calls) = 10
    /\ calls[9].variant = <<"resize", 18>>
    /\ calls[10].mask = "1d"

(***************************************************************************)
(* C26: Code 128 candidates by digit count                                 *)
(***************************************************************************)
\* digits left-padded with zeros to 13
PadTo13(d) == Zeros(13 - Len(d)) \o d

\* the GTIN check digit of a digit string: weights 3, 1, 3, ... from its first digit,
\* which for 11 digits puts the weight 3 on the digit next to the check digit
GtinCheckDigit(core) ==
    LET w(i) == IF i % 2 = 1 THEN 3 ELSE 1
        Sum[i \in 0..Len(core)] == IF i = 0 THEN 0 ELSE Sum[i - 1] + w(i) * DigitVal(core[i])
    IN  DigitChar((10 - (Sum[Len(core)] % 10)) % 10)

RECURSIVE WithoutRepeats(_)
\* a list with every later repetition of an element left out
WithoutRepeats(l) ==
    IF l = <<>> THEN <<>>
    ELSE LET front == WithoutRepeats(SubSeq(l, 1, Len(l) - 1))
         IN  IF InSeq(l[Len(l)], front) THEN front ELSE Append(front, l[Len(l)])

\* C26: for a Code 128 text with the digit projection raw: with 9 to 11 digits the
\* candidates are raw, raw without its last digit left-padded to 13, raw left-padded to
\* 13, repetitions left out; with 12 digits not beginning "2" they are raw and one more,
\* "00" + the first eleven digits when the twelfth is their GTIN check digit and
\* "0" + raw otherwise; with 12 digits beginning "2" they are raw alone
C26_Code128ByDigitCount ==
    nstate \in {"done", "again"} /\ normType = "Code 128" =>
        LET raw == DigitProjection(normValue)
            n == Len(raw)
        IN  /\ 9 <= n /\ n <= 11 =>
                  normOut = WithoutRepeats(<<raw, PadTo13(SubSeq(raw, 1, n - 1)), PadTo13(raw)>>)
            /\ n = 12 /\ raw[1] # "2" =>
                  normOut = <<raw, IF raw[12] = GtinCheckDigit(SubSeq(raw, 1, 11))
                                   THEN <<"0", "0">> \o SubSeq(raw, 1, 11)
                                   ELSE <<"0">> \o raw>>
            /\ n = 12 /\ raw[1] = "2" => normOut = <<raw>>

\* a Code 128 text of ten digits and two letters gave three candidates
C26_Witness ==
    /\ nstate = "done" /\ normType = "Code 128"
    /\ normValue = <<"4", "0", "0", "6", "3", "8", "1", "3", "3", "3", "X", "Y">>
    /\ Len(normOut) = 3
    /\ normOut[2] = <<"0", "0", "0", "0", "4", "0", "0", "6", "3", "8", "1", "3", "3">>

(***************************************************************************)
(* C27: EAN-13 price-embedded grammar                                      *)
(***************************************************************************)
\* C27: for an EAN-13 value of 13 digits raw beginning "2" the candidates are exactly
\* raw, "002" + the item code raw[1..5] + five zeros, and the first eight digits of raw +
\* five zeros, in this order with repetitions left out, and "0" + the first twelve digits
\* is not among them; for one not beginning "2" that candidate is among them
C27_PriceEmbeddedGrammar ==
    nstate \in {"done", "again"} /\ normType = "EAN-13"
    /\ Len(DigitProjection(normValue)) = 13 =>
        LET raw == DigitProjection(normValue)
            stripped == <<"0">> \o SubSeq(raw, 1, 12)
        IN  IF raw[1] = "2"
            THEN /\ normOut = WithoutRepeats(<<raw,
                                               <<"0", "0", "2">> \o SubSeq(raw, 2, 6) \o Zeros(5),
                                               SubSeq(raw, 1, 8) \o Zeros(5)>>)
                 /\ ~InSeq(stripped, normOut)
            ELSE /\ normOut[1] = raw
                 /\ InSeq(stripped, normOut)

\* the value "2" and twelve zeros: its no-price variant is the value itself and is not
\* repeated, two candidates are returned
C27_Witness ==
    /\ nstate = "done" /\ normType = "EAN-13"
    /\ normValue = <<"2">> \o Zeros(12)
    /\ normOut = <<normValue, <<"0", "0", "2">> \o Zeros(10)>>

(***************************************************************************)
(* C24: first-seen selection in _dedupe_and_filter                         *)
(***************************************************************************)
\* the entries of l at the positions in S, in the order of l
AtPositions(l, S) ==
    LET F[k \in 0..Len(l)] ==
            IF k = 0 THEN <<>> ELSE IF k \in S THEN Append(F[k - 1], l[k]) ELSE F[k - 1]
    IN  F[Len(l)]

\* the value has the length of its type and a right check digit
ChecksumValid(b) ==
    /\ Len(b.barcode_value) = RightLength(b.barcode_type)
    /\ Gs1CheckOk(b.barcode_value)

\* the positions of the entries the claim retains
FirstSeen(l) ==
    {i \in 1..Len(l) :
        IF l[i].barcode_type \in {"UPC-A", "EAN-13", "EAN-8"}
        THEN /\ ChecksumValid(l[i])
             /\ \A j \in 1..(i - 1) :
                   l[j].barcode_type = l[i].barcode_type => ~ChecksumValid(l[j])
        ELSE IF l[i].barcode_type = "UPC-E"
        THEN \A j \in 1..(i - 1) : l[j].barcode_type # "UPC-E"
        ELSE \A j \in 1..(i - 1) :
                 ~(l[j].barcode_type = l[i].barcode_type
                   /\ l[j].barcode_value = l[i].barcode_value)}

\* C24: the list _dedupe_and_filter returns holds, in input order, exactly: of each of
\* UPC-A, EAN-13 and EAN-8 the first entry of that type with a valid checksum (invalid
\* entries before it do not count), of UPC-E the first entry whatever its check digit,
\* and of every other type each entry that repeats no earlier (type, value)
C24_FirstSeenSelection ==
    rstate = "done" => dedupeCall.unique = AtPositions(dedupeCall.barcodes, FirstSeen(dedupeCall.barcodes))

\* an EAN-13 read with a wrong check digit, a Code 128 read and a valid EAN-13 read went
\* in: the last two came out
C24_Witness ==
    /\ rstate = "done"
    /\ dedupeCall.barcodes = <<Detected("EAN-13", EAN13_BAD, <<>>, NoStr),
                               Detected("Code 128", CODE128_TEXT, QuadA, NoStr),
                               Detected("EAN-13", EAN13_OK, QuadA, NoStr)>>
    /\ dedupeCall.unique = <<Detected("Code 128", CODE128_TEXT, QuadA, NoStr),
                             Detected("EAN-13", EAN13_OK, QuadA, NoStr)>>

(***************************************************************************)
(* C25: the stacked pass over lists of any length                          *)
(***************************************************************************)
InOutput(k) == \E m \in 1..Len(stackOut) : stackOut[m] = stackIn[k]

\* C25: of every two input entries whose quads are stacked (horizontal overlap ratio at
\* least 0.6, vertical overlap ratio at most 0.1) the one with the larger top Y is
\* absent from the output, whether or not the upper one is itself dropped; an entry
\* without a quad is never dropped
C25_LowerOfEveryPairDropped ==
    sstate = "done" =>
        /\ \A i, j \in 1..Len(stackIn) :
              (/\ stackIn[i].quad # <<>> /\ stackIn[j].quad # <<>>
               /\ StackedPair(stackIn[i], stackIn[j])
               /\ Top(stackIn[i]) < Top(stackIn[j])) => ~InOutput(j)
        /\ \A k \in 1..Len(stackIn) : stackIn[k].quad = <<>> => InOutput(k)

\* the same for the pairs whose upper entry survives
C25_LowerOfSurvivorDropped ==
    sstate = "done" =>
        /\ \A i, j \in 1..Len(stackIn) :
              (/\ stackIn[i].quad # <<>> /\ stackIn[j].quad # <<>>
               /\ StackedPair(stackIn[i], stackIn[j])
               /\ Top(stackIn[i]) < Top(stackIn[j])
               /\ InOutput(i)) => ~InOutput(j)
        /\ \A k \in 1..Len(stackIn) : stackIn[k].quad = <<>> => InOutput(k)

(***************************************************************************)
(* C28: what reconciliation removes                                        *)
(***************************************************************************)
\* the detection at position i of the list passed in falls under none of the six rules:
\* it repeats no earlier (type, value), is no UPC/EAN entry with a wrong checksum or
\* after the first of its type, is not displaced by a Code 128 entry and lies under no
\* entry stacked with it
UnderNoRule(i) ==
    /\ i \in FirstSeen(barcodes)
    /\ (\E j \in 1..Len(barcodes) : IsCode128(barcodes[j].barcode_type)) =>
          /\ barcodes[i].barcode_type \notin UpcEanTypes
          /\ ~HasDataBar(barcodes[i].barcode_type)
    /\ barcodes[i].quad # <<>> =>
          \A j \in 1..Len(barcodes) :
              (j # i /\ barcodes[j].quad # <<>>) => ~StackedPair(barcodes[j], barcodes[i])

\* C28: every detection passed to process_image_to_rows that falls under none of the
\* six rules yields a row, a QR Code or Data Matrix detection included
C28_RemovesOnlyBySixRules ==
    rstate = "done" =>
        \A i \in 1..Len(barcodes) : UnderNoRule(i) => InSeq(barcodes[i], kept)

\* the same for the detections that are neither QR Code nor Data Matrix, in a call
\* without OCR
C28_ButForTwoExclusions ==
    rstate = "done" /\ ~opts.ocr =>
        \A i \in 1..Len(barcodes) :
            (UnderNoRule(i) /\ barcodes[i].barcode_type \notin {"QR Code", "Data Matrix"})
                => InSeq(barcodes[i], kept)

(***************************************************************************)
(* Properties of the path from detect_barcodes to the rows (SpecUnified)   *)
(***************************************************************************)
\* C30: every detection detect_barcodes_best returned for the image is passed to
\* process_image_to_rows
C30_WholeSetReconciled ==
    rstate = "done" => \A i \in 1..Len(unified) : InSeq(unified[i], barcodes)

\* C23: a detection returned from the grid fallback, or from the terminal Code 128
\* fallback, reaches process_image_to_rows with a detection_method that holds "grid",
\* or "fallback", and with mark_uncertain its row carries the uncertain-detection note
C23_EscalatedDetectionsFlagged ==
    (rstate = "done" /\ Last(calls).step \in {"grid", "terminal"}) =>
        /\ \A i \in 1..Len(barcodes) :
              /\ barcodes[i].detection_method # NoStr
              /\ Contains(barcodes[i].detection_method,
                          IF Last(calls).step = "grid" THEN <<"g", "r", "i", "d">>
                          ELSE <<"f", "a", "l", "l", "b", "a", "c", "k">>)
        /\ opts.mark_uncertain => \A k \in 1..Len(rows) : rows[k].notes = UncertainNote

\* C29: of the detections detect_barcodes returned, each one that repeats no earlier
\* (symbology, raw text) pair is among those detect_barcodes_unified returns: two
\* detections with the same raw text and different symbologies are both kept
C29_DuplicatesByTypeAndText ==
    ustate = "returned" =>
        \A i \in 1..Len(result) :
            (\A j \in 1..(i - 1) :
                 ~(result[j].barcode_type = result[i].barcode_type
                   /\ result[j].barcode_value = result[i].barcode_value))
            => \E k \in 1..Len(unified) :
                   /\ unified[k].barcode_type = result[i].barcode_type
                   /\ unified[k].barcode_value = result[i].barcode_value

====
